---- MODULE Spec2Model ----
\* Verification model of the sentry: the block tracker and the eth/64
\* capability server (per-peer mailboxes, handle_event) of src/src/main.rs and
\* the RLPx peer session (Hello negotiation, poll_next, start_send) of
\* src/devp2p/src/peer.rs.
EXTENDS Integers, Sequences, FiniteSets, TLC

VARIABLES
    block_by_peer,       \* BlockTracker.block_by_peer: peer -> height
    peers_by_block,      \* BlockTracker.peers_by_block: height -> set of peers
    tracker_last,        \* the last BlockTracker call and what it found
    shared_capabilities, \* PeerStream.shared_capabilities
    disconnected,        \* PeerStream.disconnected (the disconnect latch)
    inbound,             \* items the transport has ready for poll_next, oldest first
    handed,              \* frames the last start_send handed to the transport's sink
    last,                \* what the last poll_next / start_send returned
    pc,                  \* PeerStream::new: the await it is at
    capabilities,        \* PeerStream::new: the local capability list argument
    received,            \* PeerStream::new: what transport.try_next() gave
    sent,                \* frames PeerStream::new has written to the transport
    result,              \* PeerStream::new: "pending", "Ok" or the error
    status_message,      \* CapabilityServerImpl.status_message
    valid_peers,         \* CapabilityServerImpl.valid_peers
    peer_pipes,          \* keys of CapabilityServerImpl.peer_pipes
    mailbox,             \* per peer, the channel and receiver stream its Pipes refer to
    event_task,          \* per peer, where its on_peer_event call stands
    next_task,           \* per peer, where its next call stands
    server_last,         \* the last capability-server operation and its outcome
    lock_held,           \* per reader-writer lock, the thread writing and the threads reading
    lock_task            \* per thread, the operation it runs and the lock step it is at

trackerVars == <<block_by_peer, peers_by_block, tracker_last>>

sessionVars == <<shared_capabilities, disconnected, inbound, handed, last>>

helloVars == <<pc, capabilities, received, sent, result>>

serverVars == <<status_message, valid_peers, peer_pipes, mailbox,
                event_task, next_task, server_last>>

lockVars == <<lock_held, lock_task>>

vars == <<block_by_peer, peers_by_block, tracker_last,
          shared_capabilities, disconnected, inbound, handed, last,
          pc, capabilities, received, sent, result,
          status_message, valid_peers, peer_pipes, mailbox,
          event_task, next_task, server_last,
          lock_held, lock_task>>

\* ---------------------------------------------------------------- bounds

NumPeers == 3
MaxHeight == 3

PeerIds == 1..NumPeers
Heights == 0..MaxHeight

\* ---------------------------------------------------------------- maps

\* HashMap / BTreeMap with the key k removed.
MapRemove(m, k) == [x \in (DOMAIN m) \ {k} |-> m[x]]

\* HashMap / BTreeMap with k bound to v (insert or overwrite).
MapInsert(m, k, v) == [x \in (DOMAIN m) \cup {k} |-> IF x = k THEN v ELSE m[x]]

EmptyMap == [x \in {} |-> 0]

\* ---------------------------------------------------------------- BlockTracker

\* The shared tail of set_block_number and remove_peer: if the entry of `block`
\* is occupied, take `peer` out of it and drop the entry once it is empty.
MutantUnindexNoPrune(pbb, peer, block) ==
    IF block \in DOMAIN pbb
    THEN MapInsert(pbb, block, pbb[block] \ {peer})
    ELSE pbb

Unindex(pbb, peer, block) ==
    IF block \in DOMAIN pbb
    THEN IF pbb[block] \ {peer} = {}
         THEN MapRemove(pbb, block)
         ELSE MapInsert(pbb, block, pbb[block] \ {peer})
    ELSE pbb

\* peers_by_block.entry(block).or_default().insert(peer)
IndexPeer(pbb, peer, block) ==
    MapInsert(pbb, block, (IF block \in DOMAIN pbb THEN pbb[block] ELSE {}) \cup {peer})

set_block_number(peer, block) ==
    /\ block_by_peer' = MapInsert(block_by_peer, peer, block)
    /\ peers_by_block' =
           IndexPeer(IF peer \in DOMAIN block_by_peer
                     THEN Unindex(peers_by_block, peer, block_by_peer[peer])
                     ELSE peers_by_block,
                     peer, block)
    /\ tracker_last' = [op |-> "set_block_number", peer |-> peer, block |-> block,
                        old |-> IF peer \in DOMAIN block_by_peer
                                THEN block_by_peer[peer] ELSE -1]

\* remove_peer: the peer leaves both maps.
MutantRemovePeerForgets(peer) ==
    /\ UNCHANGED <<block_by_peer, peers_by_block>>
    /\ tracker_last' = [op |-> "remove_peer", peer |-> peer, block |-> -1,
                        old |-> IF peer \in DOMAIN block_by_peer
                                THEN block_by_peer[peer] ELSE -1]

remove_peer(peer) ==
    /\ block_by_peer' = MapRemove(block_by_peer, peer)
    /\ peers_by_block' =
           IF peer \in DOMAIN block_by_peer
           THEN Unindex(peers_by_block, peer, block_by_peer[peer])
           ELSE peers_by_block
    /\ tracker_last' = [op |-> "remove_peer", peer |-> peer, block |-> -1,
                        old |-> IF peer \in DOMAIN block_by_peer
                                THEN block_by_peer[peer] ELSE -1]

\* BlockTracker::default()
TrackerInit ==
    /\ block_by_peer = EmptyMap
    /\ peers_by_block = EmptyMap
    /\ tracker_last = [op |-> "new", peer |-> 0, block |-> -1, old |-> -1]

\* The session variables of a state in which no session exists.
NoSession ==
    /\ shared_capabilities = <<>>
    /\ disconnected = FALSE
    /\ inbound = <<>>
    /\ handed = <<>>
    /\ last = [op |-> "none"]

\* The capability-server variables of a state in which no server exists.
NoServer ==
    /\ status_message = [installed |-> FALSE]
    /\ valid_peers = {}
    /\ peer_pipes = {}
    /\ mailbox = <<>>
    /\ event_task = <<>>
    /\ next_task = <<>>
    /\ server_last = [op |-> "none"]

\* The lock variables of a state in which the locks are not looked at.
NoLocks ==
    /\ lock_held = << >>
    /\ lock_task = << >>

\* The handshake variables of a state in which no handshake is running.
NoHandshake ==
    /\ pc = "none"
    /\ capabilities = <<>>
    /\ received = [t |-> "nothing"]
    /\ sent = <<>>
    /\ result = "none"

SetBlockNumber ==
    \E p \in PeerIds, h \in Heights :
        set_block_number(p, h) /\ UNCHANGED <<sessionVars, helloVars, serverVars, lockVars>>

RemovePeer ==
    \E p \in PeerIds :
        remove_peer(p) /\ UNCHANGED <<sessionVars, helloVars, serverVars, lockVars>>

TrackerNext == SetBlockNumber \/ RemovePeer

\* A fresh tracker, with no session and no handshake.
TrackerStart == TrackerInit /\ NoSession /\ NoHandshake /\ NoServer /\ NoLocks

SpecTracker == TrackerStart /\ [][TrackerNext]_vars

\* C1: after any sequence of set_block_number and remove_peer calls from the empty
\* tracker, P is in peers_by_block[H] exactly when block_by_peer[P] = H, and no
\* key of peers_by_block maps to an empty set.
TrackerBijection ==
    /\ \A p \in PeerIds, h \in Heights :
           (h \in DOMAIN peers_by_block /\ p \in peers_by_block[h])
               <=> (p \in DOMAIN block_by_peer /\ block_by_peer[p] = h)
    /\ \A h \in DOMAIN peers_by_block : peers_by_block[h] # {}
    /\ DOMAIN peers_by_block \subseteq Heights
    /\ DOMAIN block_by_peer \subseteq PeerIds

\* C1 witness: a peer that was alone at its old height has just been moved to
\* another height (the old entry had to be pruned) while another peer is tracked.
TrackerBijectionWitness ==
    /\ tracker_last.op = "set_block_number"
    /\ tracker_last.old >= 0
    /\ tracker_last.old # tracker_last.block
    /\ tracker_last.old \notin DOMAIN peers_by_block
    /\ Cardinality(DOMAIN block_by_peer) >= 2

\* ---------------------------------------------------------------- devp2p types

MAX_PAYLOAD_SIZE == 16 * 1024 * 1024

\* DisconnectReason: the wire values the enum defines.
DisconnectRequested == 0
ProtocolBreach == 2
UselessPeer == 3
SubprotocolSpecific == 16

KnownReasons == (0..11) \cup {SubprotocolSpecific}

\* DisconnectReason::from_u8: the reason, or -1 for None.
ReasonFromU8(b) == IF b \in KnownReasons THEN b ELSE -1

\* CapabilityName values and their order by byte value ("bzz" < "eth" < "les").
CapNames == {"bzz", "eth", "les"}

NameKey(n) == CASE n = "bzz" -> 1 [] n = "eth" -> 2 [] n = "les" -> 3

\* Bytes values: the bytes of `pre` followed by `zeros` zero bytes.
Bytes(s) == [pre |-> s, zeros |-> 0]

BytesLen(d) == Len(d.pre) + d.zeros

EMPTY_LIST_RLP == <<192>>

\* ---------------------------------------------------------------- rlp

\* rlp::encode of an unsigned integer below 2^16.
RlpEncodeUint(n) ==
    IF n = 0 THEN <<128>>
    ELSE IF n < 128 THEN <<n>>
    ELSE IF n < 256 THEN <<129, n>>
    ELSE <<130, n \div 256, n % 256>>

\* Rlp::new(&val[0..1]).as_val::<usize>(): the integer a one-byte RLP item
\* holds, or -1 for a decoder error (a zero byte, a string or list header).
RlpDecodeUintByte(b) ==
    IF b = 128 THEN 0
    ELSE IF b >= 1 /\ b < 128 THEN b
    ELSE -1

\* Rlp::new(data).val_at::<u8>(0).ok(): the first element of a short RLP list
\* as a u8, or -1 when data is no list, the list is cut short or empty, or the
\* element is no canonical u8.
RlpListFirstU8(d) ==
    LET n == BytesLen(d)
        at(i) == IF i <= Len(d.pre) THEN d.pre[i] ELSE 0
    IN IF n = 0 THEN -1
       ELSE IF at(1) < 192 \/ at(1) > 247 THEN -1
       ELSE IF at(1) = 192 \/ n < 1 + (at(1) - 192) THEN -1
       ELSE IF at(2) = 128 THEN 0
       ELSE IF at(2) >= 1 /\ at(2) < 128 THEN at(2)
       ELSE IF at(2) = 129 /\ at(1) >= 194 /\ at(3) >= 128 THEN at(3)
       ELSE -1

\* ---------------------------------------------------------------- Hello negotiation

\* The capability side table CapabilityId -> length the node was built with.
CapabilityTable ==
    { [name |-> "bzz", version |-> 1, length |-> 3],
      [name |-> "eth", version |-> 63, length |-> 1],
      [name |-> "eth", version |-> 64, length |-> 2],
      [name |-> "les", version |-> 2, length |-> 2] }

\* Vec::retain
RECURSIVE Retain(_, _, _)
Retain(v, keep(_), k) ==
    IF k > Len(v) THEN <<>>
    ELSE (IF keep(v[k]) THEN <<v[k]>> ELSE <<>>) \o Retain(v, keep, k + 1)

\* for cap_info in nonhello_capabilities { if cap_match { push } }
CapMatch(remote, cap_info) ==
    \E i \in 1..Len(remote) :
        remote[i].name = cap_info.name /\ remote[i].version = cap_info.version

Intersect(local, remote) ==
    LET keep(c) == CapMatch(remote, c) IN Retain(local, keep, 1)

\* for cap_info in shared_caps_original { shared_capabilities.retain(..) }
RECURSIVE RetainHighest(_, _, _)
MutantRetainHighestStrict(shared, original, k) ==
    IF k > Len(original) THEN shared
    ELSE LET keep(v) == v.name # original[k].name \/ v.version > original[k].version
         IN RetainHighest(Retain(shared, keep, 1), original, k + 1)

RetainHighest(shared, original, k) ==
    IF k > Len(original) THEN shared
    ELSE LET keep(v) == v.name # original[k].name \/ v.version >= original[k].version
         IN RetainHighest(Retain(shared, keep, 1), original, k + 1)

\* sort_by_key(|v| v.name): a stable sort, as an insertion sort.
RECURSIVE InsertByName(_, _)
InsertByName(sorted, c) ==
    IF sorted = <<>> THEN <<c>>
    ELSE IF NameKey(c.name) < NameKey(Head(sorted).name) THEN <<c>> \o sorted
    ELSE <<Head(sorted)>> \o InsertByName(Tail(sorted), c)

\* shared_capabilities.sort_by_key(|v| v.name)
MutantSortByNameKeepsOrder(v) == v

RECURSIVE SortByName(_)
SortByName(v) ==
    IF v = <<>> THEN <<>>
    ELSE InsertByName(SortByName(SubSeq(v, 1, Len(v) - 1)), v[Len(v)])

\* The shared capability list PeerStream::new computes from the local list and
\* the capability list of the remote Hello.
SharedCapabilities(local, remote) ==
    LET matched == Intersect(local, remote)
    IN SortByName(RetainHighest(matched, matched, 1))

\* ---------------------------------------------------------------- frames

\* A frame on the wire: `id` holds the bytes of RLP(message id); the Snappy
\* block after them announces `declared` uncompressed bytes in its header (-1:
\* the header is unreadable) and expands to `body`.
Frame(idbytes, declared, body) ==
    [t |-> "frame", id |-> idbytes, declared |-> declared, body |-> body]

\* snap::raw::Encoder::compress after RLP(message_id)
EncodeFrame(message_id, payload) ==
    Frame(RlpEncodeUint(message_id), BytesLen(payload), payload)

\* PeerMessage
Disconnect(reason) == [t |-> "Disconnect", reason |-> reason]
Ping == [t |-> "Ping"]
Pong == [t |-> "Pong"]
Subprotocol(cap_name, id, data) ==
    [t |-> "Subprotocol", cap_name |-> cap_name, id |-> id, data |-> data]

\* Poll<Option<Result<PeerMessage, io::Error>>>
PollPending == [t |-> "Pending"]
PollNone == [t |-> "None"]
PollOk(m) == [t |-> "Ok", msg |-> m]
PollErr(kind, what) == [t |-> "Err", kind |-> kind, what |-> what]

\* ---------------------------------------------------------------- Stream::poll_next

\* for cap in &s.shared_capabilities { if message_id > cap.length { .. } }
\* gives <<message_id, index>> after the whole list has been walked.
RECURSIVE WalkCaps(_, _, _, _)
WalkCaps(caps, k, message_id, index) ==
    IF k > Len(caps) THEN <<message_id, index>>
    ELSE IF message_id > caps[k].length
         THEN WalkCaps(caps, k + 1, message_id - caps[k].length, index + 1)
         ELSE WalkCaps(caps, k + 1, message_id, index)

\* 0x01 => { s.disconnected = true; .. }: the reserved id that sets the latch.
MutantSetsLatchNever(message_id) == FALSE

SetsLatch(message_id) == message_id = 1

\* The reserved ids below 0x10, given the decompressed data.
MutantPollReservedLatchesUnhandled(message_id, data) ==
    IF message_id = 1
    THEN [latch |-> SetsLatch(message_id),
          item |-> IF ReasonFromU8(RlpListFirstU8(data)) # -1
                   THEN PollOk(Disconnect(ReasonFromU8(RlpListFirstU8(data))))
                   ELSE PollErr("Other", "peer disconnected with malformed message")]
    ELSE [latch |-> message_id \notin {2, 3},
          item |-> IF message_id = 2 THEN PollOk(Ping)
                   ELSE IF message_id = 3 THEN PollOk(Pong)
                   ELSE PollErr("Other", "unhandled reserved message")]

PollReserved(message_id, data) ==
    IF message_id = 1
    THEN [latch |-> SetsLatch(message_id),
          item |-> IF ReasonFromU8(RlpListFirstU8(data)) # -1
                   THEN PollOk(Disconnect(ReasonFromU8(RlpListFirstU8(data))))
                   ELSE PollErr("Other", "peer disconnected with malformed message")]
    ELSE [latch |-> FALSE,
          item |-> IF message_id = 2 THEN PollOk(Ping)
                   ELSE IF message_id = 3 THEN PollOk(Pong)
                   ELSE PollErr("Other", "unhandled reserved message")]

\* The ids from 0x10 on.
PollSubprotocol(caps, message_id, data) ==
    LET w == WalkCaps(caps, 1, message_id - 16, 0)
    IN IF w[2] >= Len(caps)
       THEN PollErr("Other", "invalid message id (out of cap range)")
       ELSE PollOk(Subprotocol(caps[w[2] + 1].name, w[1], data))

\* The payload size check of poll_next: TRUE when the frame is rejected.
MutantExceedsLimitInclusive(payload_len) == payload_len >= MAX_PAYLOAD_SIZE

ExceedsLimit(payload_len) == payload_len > MAX_PAYLOAD_SIZE

\* poll_next on Some(Ok(val)): whether the latch is set, the item yielded and
\* whether decompress_vec ran.
PollFrame(caps, val) ==
    LET message_id == RlpDecodeUintByte(val.id[1]) IN
    IF message_id = -1
    THEN [latch |-> FALSE, decompressed |-> FALSE,
          item |-> PollErr("Other", "message id parsing failed (invalid)")]
    ELSE IF Len(val.id) # 1 \/ val.declared = -1
    THEN [latch |-> FALSE, decompressed |-> FALSE,
          item |-> PollErr("Other", "snappy: corrupt input")]
    ELSE IF ExceedsLimit(val.declared)
    THEN [latch |-> FALSE, decompressed |-> FALSE,
          item |-> PollErr("InvalidInput", "payload size exceeds limit")]
    ELSE IF val.declared # BytesLen(val.body)
    THEN [latch |-> FALSE, decompressed |-> TRUE,
          item |-> PollErr("Other", "snappy: corrupt input")]
    ELSE IF message_id < 16
    THEN [latch |-> PollReserved(message_id, val.body).latch, decompressed |-> TRUE,
          item |-> PollReserved(message_id, val.body).item]
    ELSE [latch |-> FALSE, decompressed |-> TRUE,
          item |-> PollSubprotocol(caps, message_id, val.body)]

\* poll_next: the new latch, the item returned, how many transport items were
\* taken and whether decompress_vec ran.
PollNext(caps, latch, queue) ==
    IF latch
    THEN [latch |-> TRUE, item |-> PollNone, taken |-> 0, decompressed |-> FALSE]
    ELSE IF queue = <<>>
    THEN [latch |-> FALSE, item |-> PollPending, taken |-> 0, decompressed |-> FALSE]
    ELSE IF Head(queue).t = "eof"
    THEN [latch |-> FALSE, item |-> PollNone, taken |-> 0, decompressed |-> FALSE]
    ELSE IF Head(queue).t = "err"
    THEN [latch |-> FALSE, item |-> PollErr("Transport", "transport error"),
          taken |-> 1, decompressed |-> FALSE]
    ELSE [latch |-> PollFrame(caps, Head(queue)).latch,
          item |-> PollFrame(caps, Head(queue)).item,
          taken |-> 1,
          decompressed |-> PollFrame(caps, Head(queue)).decompressed]

\* ---------------------------------------------------------------- Sink::start_send

\* shared_capabilities.iter().find(|cap| cap.name == cap_name): its index, or 0.
FindCap(caps, cap_name) ==
    IF \E i \in 1..Len(caps) : caps[i].name = cap_name
    THEN CHOOSE i \in 1..Len(caps) :
             /\ caps[i].name = cap_name
             /\ \A j \in 1..(i - 1) : caps[j].name # cap_name
    ELSE 0

\* let mut message_id = 0x10; for scap in .. { if scap == &cap { break; }
\* message_id += scap.length; }
RECURSIVE CapBase(_, _, _)
MutantCapBaseInclusive(caps, cap, k) ==
    IF k > Len(caps) THEN 0
    ELSE IF caps[k] = cap THEN caps[k].length
    ELSE caps[k].length + CapBase(caps, cap, k + 1)

CapBase(caps, cap, k) ==
    IF k > Len(caps) \/ caps[k] = cap THEN 0
    ELSE caps[k].length + CapBase(caps, cap, k + 1)

\* The wire id start_send gives local id `id` of capability `cap`.
WireId(caps, cap, id) == 16 + CapBase(caps, cap, 1) + id

\* The latch test at the head of start_send.
MutantSendGateOpen(latch) == FALSE

SendGate(latch) == latch

\* PeerMessage::Disconnect(reason) => { this.disconnected = true; .. }
MutantSendLatchKept(latch, message) == latch

SendLatch(latch, message) == IF message.t = "Disconnect" THEN TRUE ELSE latch

\* if id >= cap.length { return Ok(()) }: TRUE when the message is dropped.
MutantIdTooBigOffByOne(cap, id) == id > cap.length

IdTooBig(cap, id) == id >= cap.length

\* start_send: the result, the new latch and the frames handed to the transport.
StartSend(caps, latch, message) ==
    IF SendGate(latch)
    THEN [res |-> "BrokenPipe", latch |-> latch, frames |-> <<>>]
    ELSE IF message.t = "Disconnect"
    THEN [res |-> "Ok", latch |-> SendLatch(latch, message),
          frames |-> <<EncodeFrame(1, Bytes(RlpEncodeUint(message.reason)))>>]
    ELSE IF message.t = "Ping"
    THEN [res |-> "Ok", latch |-> latch,
          frames |-> <<EncodeFrame(2, Bytes(EMPTY_LIST_RLP))>>]
    ELSE IF message.t = "Pong"
    THEN [res |-> "Ok", latch |-> latch,
          frames |-> <<EncodeFrame(3, Bytes(EMPTY_LIST_RLP))>>]
    ELSE IF FindCap(caps, message.cap_name) = 0
    THEN [res |-> "Ok", latch |-> latch, frames |-> <<>>]
    ELSE IF IdTooBig(caps[FindCap(caps, message.cap_name)], message.id)
    THEN [res |-> "Ok", latch |-> latch, frames |-> <<>>]
    ELSE [res |-> "Ok", latch |-> latch,
          frames |-> <<EncodeFrame(
                         WireId(caps, caps[FindCap(caps, message.cap_name)], message.id),
                         message.data)>>]

\* ---------------------------------------------------------------- inputs

MaxRemoteCaps == 3
MaxInbound == 2
MaxLocalId == 3
SessionCapCount == 2

\* The capability lists a node can be built with: the entries of the side
\* table (a map keyed by CapabilityId, so no (name, version) twice), any order.
LocalLists ==
    { s \in UNION { [1..n -> CapabilityTable] : n \in 0..Cardinality(CapabilityTable) } :
        \A i, j \in 1..Len(s) : i # j => s[i] # s[j] }

\* The (name, version) pairs a remote Hello may advertise: ours and a newer one.
RemoteCapIds ==
    { [name |-> c.name, version |-> c.version] : c \in CapabilityTable }
        \cup { [name |-> "eth", version |-> 65] }

RemoteLists == UNION { [1..n -> RemoteCapIds] : n \in 0..MaxRemoteCaps }

\* The shared capability lists a successful handshake leaves in a session.
NegotiatedLists ==
    { SharedCapabilities(l, r) : l \in LocalLists, r \in RemoteLists } \ {<<>>}

\* Inbound frames. Reserved ids 0x00..0x04 and 0x0f, subprotocol ids inside and
\* past the negotiated range, a first byte that is no RLP integer (0x81);
\* Disconnect payloads [UselessPeer], [0x0c] (no known reason) and a bare byte;
\* Snappy headers announcing more than, and exactly, MAX_PAYLOAD_SIZE bytes, an
\* unreadable header, and a header that disagrees with the block.
PingFrame == Frame(<<2>>, 1, Bytes(EMPTY_LIST_RLP))

FirstSubprotocolFrame == Frame(<<16>>, 1, Bytes(EMPTY_LIST_RLP))

MaxSizeBody == [pre |-> <<193, UselessPeer>>, zeros |-> MAX_PAYLOAD_SIZE - 2]

InboundFrames ==
    { Frame(<<b>>, 1, Bytes(EMPTY_LIST_RLP)) : b \in {128, 3, 4, 15, 18, 24, 129} }
    \cup { PingFrame, FirstSubprotocolFrame }
    \cup { Frame(<<1>>, 2, Bytes(<<193, UselessPeer>>)),
           Frame(<<1>>, 2, Bytes(<<193, 12>>)),
           Frame(<<1>>, 1, Bytes(<<UselessPeer>>)) }
    \cup { Frame(<<b>>, MAX_PAYLOAD_SIZE + 1, Bytes(<<>>)) : b \in {1, 17} }
    \cup { Frame(<<b>>, MAX_PAYLOAD_SIZE, MaxSizeBody) : b \in {1, 2} }
    \cup { Frame(<<2>>, -1, Bytes(<<>>)), Frame(<<16>>, 3, Bytes(EMPTY_LIST_RLP)) }

\* What the transport may have ready: anything when nothing is queued, and one
\* of a few items behind a queued one.
InboundItems == InboundFrames \cup { [t |-> "err"], [t |-> "eof"] }

FollowItems == { PingFrame, FirstSubprotocolFrame, [t |-> "err"] }

SendData == { Bytes(<<>>), Bytes(<<193, UselessPeer>>) }

SendMessages ==
    { Disconnect(r) : r \in {DisconnectRequested, UselessPeer} }
    \cup { Ping, Pong }
    \cup { Subprotocol(n, i, Bytes(<<>>)) : n \in CapNames, i \in 0..MaxLocalId }

\* ---------------------------------------------------------------- session actions

\* PeerStream { .., disconnected: false } as PeerStream::new returns it.
SessionInit ==
    /\ shared_capabilities \in { l \in NegotiatedLists : Len(l) = SessionCapCount }
    /\ disconnected = FALSE
    /\ inbound = <<>>
    /\ handed = <<>>
    /\ last = [op |-> "new"]

\* The transport has another item ready (a frame, an I/O error, end of stream).
Arrive ==
    \E x \in IF inbound = <<>> THEN InboundItems ELSE FollowItems :
        /\ Len(inbound) < MaxInbound
        /\ IF inbound = <<>> THEN TRUE ELSE inbound[Len(inbound)].t # "eof"
        /\ inbound' = Append(inbound, x)
        /\ UNCHANGED <<shared_capabilities, disconnected, handed, last>>
        /\ UNCHANGED <<trackerVars, helloVars, serverVars, lockVars>>

poll_next ==
    LET r == PollNext(shared_capabilities, disconnected, inbound) IN
    /\ disconnected' = r.latch
    /\ inbound' = SubSeq(inbound, r.taken + 1, Len(inbound))
    /\ last' = [op |-> "poll_next", item |-> r.item, decompressed |-> r.decompressed]
    /\ UNCHANGED <<shared_capabilities, handed>>
    /\ UNCHANGED <<trackerVars, helloVars, serverVars, lockVars>>

start_send(message) ==
    LET r == StartSend(shared_capabilities, disconnected, message) IN
    /\ disconnected' = r.latch
    /\ handed' = r.frames
    /\ last' = [op |-> "start_send", msg |-> message, res |-> r.res]
    /\ UNCHANGED <<shared_capabilities, inbound>>
    /\ UNCHANGED <<trackerVars, helloVars, serverVars, lockVars>>

StartSendAny == \E m \in SendMessages : start_send(m)

SessionNext == Arrive \/ poll_next \/ StartSendAny

\* An established session, beside a fresh tracker.
SessionStart == SessionInit /\ TrackerInit /\ NoHandshake /\ NoServer /\ NoLocks

SpecSession == SessionStart /\ [][SessionNext]_vars

\* ---------------------------------------------------------------- session claims

\* C2: once the disconnect latch is set it is never cleared, and every later
\* start_send, whatever the message, fails with broken-pipe and hands no frame
\* to the transport.
LatchIsMonotone ==
    [][disconnected =>
          /\ disconnected'
          /\ \A m \in SendMessages :
                 start_send(m) => (last'.res = "BrokenPipe" /\ handed' = <<>>)]_vars

\* C2 witness: a send has just been refused on a latched session.
LatchIsMonotoneWitness ==
    /\ disconnected
    /\ last.op = "start_send"
    /\ last.msg = Ping
    /\ last.res = "BrokenPipe"
    /\ handed = <<>>

\* The frame poll_next is about to read has wire id 0x01.
HeadIsDisconnectFrame ==
    /\ ~disconnected
    /\ inbound # <<>>
    /\ Head(inbound).t = "frame"
    /\ Head(inbound).id = <<1>>

\* Its Snappy block passes the size check and decompresses.
HeadDecompresses ==
    /\ Head(inbound).declared >= 0
    /\ Head(inbound).declared <= MAX_PAYLOAD_SIZE
    /\ Head(inbound).declared = BytesLen(Head(inbound).body)

\* What a 0x01 frame yields: Disconnect(reason), or the malformed-disconnect error.
DisconnectItems ==
    { PollOk(Disconnect(r)) : r \in KnownReasons }
        \cup { PollErr("Other", "peer disconnected with malformed message") }

\* Every poll of a latched session ends the inbound sequence and reads nothing.
LatchedPollEnds ==
    (disconnected /\ poll_next) =>
        (last'.item = PollNone /\ inbound' = inbound /\ disconnected')

\* C3 as stated: any received frame with wire id 0x01 sets the latch and
\* yields Disconnect(reason) or the malformed-disconnect error, and every
\* later poll ends the inbound sequence even with frames pending.
DisconnectFrameAlwaysLatches ==
    [][/\ (HeadIsDisconnectFrame /\ poll_next) =>
              (disconnected' /\ last'.item \in DisconnectItems)
       /\ LatchedPollEnds]_vars

\* C3 amended: a received frame with wire id 0x01 whose Snappy block passes the
\* size check and decompresses sets the latch and yields exactly one item,
\* Disconnect(reason) when the first payload element is a known reason and the
\* malformed-disconnect error otherwise; every later poll ends the inbound
\* sequence and reads nothing, even with frames pending.
DisconnectFrameLatches ==
    [][/\ (HeadIsDisconnectFrame /\ HeadDecompresses /\ poll_next) =>
              /\ disconnected'
              /\ inbound' = Tail(inbound)
              /\ last'.item \in DisconnectItems
              /\ \A r \in KnownReasons :
                     (Head(inbound).body.pre = <<193, IF r = 0 THEN 128 ELSE r>>)
                         => last'.item = PollOk(Disconnect(r))
              /\ (Head(inbound).body.pre \in {<<UselessPeer>>, <<193, 12>>})
                     => last'.item = PollErr("Other", "peer disconnected with malformed message")
       /\ LatchedPollEnds]_vars

\* C3 witness: poll_next has just read and decompressed a 0x01 frame, yielded
\* its one item and set the latch, with a frame still pending behind it.
DisconnectFrameLatchesWitness ==
    /\ disconnected
    /\ inbound # <<>>
    /\ last.op = "poll_next"
    /\ last.item \in DisconnectItems
    /\ last.decompressed

\* C4: sending Disconnect(r) on an unlatched session sets the latch and hands
\* the transport exactly one frame, wire id 0x01 with payload RLP(r as u8); the
\* very next poll_next ends the inbound sequence without reading a frame.
SendDisconnectCloses ==
    [][/\ \A r \in KnownReasons :
              (~disconnected /\ start_send(Disconnect(r))) =>
                  /\ disconnected'
                  /\ last'.res = "Ok"
                  /\ handed' = <<Frame(<<1>>, 1, Bytes(<<IF r = 0 THEN 128 ELSE r>>))>>
       /\ (last.op = "start_send" /\ last.res = "Ok" /\ last.msg.t = "Disconnect"
               /\ poll_next) =>
              (last'.item = PollNone /\ inbound' = inbound /\ disconnected')]_vars

\* C4 witness: Disconnect(UselessPeer) was sent with a frame pending, and the
\* next poll returned None and left the frame unread.
SendDisconnectClosesWitness ==
    /\ disconnected
    /\ handed = <<Frame(<<1>>, 1, Bytes(<<UselessPeer>>))>>
    /\ inbound # <<>>
    /\ last = [op |-> "poll_next", item |-> PollNone, decompressed |-> FALSE]

\* start_send drops m: its capability is not shared, or its local id is not
\* below the length of the shared capability of that name.
IsDropped(m) ==
    /\ m.t = "Subprotocol"
    /\ \A i \in 1..Len(shared_capabilities) :
           shared_capabilities[i].name = m.cap_name
               => m.id >= shared_capabilities[i].length

\* What a dropped send does: success, no frame, session state untouched.
DropsSilently ==
    /\ last'.res = "Ok"
    /\ handed' = <<>>
    /\ disconnected' = disconnected
    /\ shared_capabilities' = shared_capabilities
    /\ inbound' = inbound

\* C9 as stated: start_send of a Subprotocol message whose capability is not
\* shared or whose local id is out of range returns success, hands no frame to
\* the transport and leaves the session state unchanged.
DroppedSendSucceeds ==
    [][\A m \in SendMessages : (IsDropped(m) /\ start_send(m)) => DropsSilently]_vars

\* C9 amended: on a session whose latch is not set, start_send of a Subprotocol
\* message whose capability is not shared or whose local id is out of range
\* returns success, hands no frame to the transport and leaves the session
\* state unchanged (on a latched session it fails with broken-pipe, as every
\* send does).
DroppedSendSucceedsUnlatched ==
    [][\A m \in SendMessages :
           (~disconnected /\ IsDropped(m) /\ start_send(m)) => DropsSilently]_vars

\* C9 witness: a message with local id = the capability's length has just been
\* dropped on an open session that has a frame pending.
DroppedSendSucceedsWitness ==
    /\ ~disconnected
    /\ last.op = "start_send"
    /\ last.res = "Ok"
    /\ last.msg.t = "Subprotocol"
    /\ \E i \in 1..Len(shared_capabilities) :
           /\ shared_capabilities[i].name = last.msg.cap_name
           /\ shared_capabilities[i].length = last.msg.id
    /\ handed = <<>>
    /\ inbound # <<>>

\* The frame poll_next is about to read carries a message id (its first byte is
\* the RLP of an integer).
HeadHasMessageId ==
    /\ ~disconnected
    /\ inbound # <<>>
    /\ Head(inbound).t = "frame"
    /\ Head(inbound).id[1] \in 1..128

\* C10: for an inbound frame with any message id whose Snappy header declares
\* more than 16 MiB, poll_next yields an invalid-input I/O error, no
\* PeerMessage, and does not decompress; exactly 16 MiB is not rejected.
OversizeIsRejected ==
    [][(HeadHasMessageId /\ poll_next) =>
          /\ Head(inbound).declared > 16 * 1024 * 1024 =>
                 /\ last'.item.t = "Err"
                 /\ last'.item.kind = "InvalidInput"
                 /\ ~last'.decompressed
          /\ Head(inbound).declared = 16 * 1024 * 1024 =>
                 /\ last'.decompressed
                 /\ last'.item.t = "Err" => last'.item.kind # "InvalidInput"]_vars

\* C10 witness: a frame declaring 16 MiB + 1 has just been rejected.
OversizeIsRejectedWitness ==
    /\ last.op = "poll_next"
    /\ last.item.t = "Err"
    /\ last.item.kind = "InvalidInput"
    /\ ~last.decompressed
    /\ ~disconnected

\* ---------------------------------------------------------------- loopback

\* Two sessions with the same shared capability list, one message in flight at
\* a time: what start_send hands to the transport is what the peer's poll_next
\* reads. Disconnect is left out, it latches the sender.
LoopMessages ==
    { Ping, Pong }
    \cup { Subprotocol(n, i, d) : n \in CapNames, i \in 0..MaxLocalId, d \in SendData }

LoopInit ==
    /\ shared_capabilities \in NegotiatedLists
    /\ disconnected = FALSE
    /\ inbound = <<>>
    /\ handed = <<>>
    /\ last = [op |-> "new"]

LoopSend ==
    \E m \in LoopMessages :
        /\ inbound = <<>>
        /\ handed = <<>>
        /\ start_send(m)

\* The transport carries the frame to the peer.
Deliver ==
    /\ handed # <<>>
    /\ inbound = <<>>
    /\ inbound' = handed
    /\ handed' = <<>>
    /\ UNCHANGED <<shared_capabilities, disconnected, last>>
    /\ UNCHANGED <<trackerVars, helloVars, serverVars, lockVars>>

LoopReceive ==
    /\ inbound # <<>>
    /\ poll_next

LoopNext == LoopSend \/ Deliver \/ LoopReceive

\* Two ends of one session, beside a fresh tracker.
LoopStart == LoopInit /\ TrackerInit /\ NoHandshake /\ NoServer /\ NoLocks

SpecLoop == LoopStart /\ [][LoopNext]_vars

\* C5: the frame start_send produces for a Subprotocol message of a shared
\* capability with an in-range local id is decoded by poll_next, under the same
\* shared capability list, to the same cap_name, local id and data, at every
\* position of the list.
SubprotocolRoundTrip ==
    [][(last.op = "start_send" /\ last.msg.t = "Subprotocol" /\ LoopReceive)
           => last'.item = PollOk(last.msg)]_vars

\* The sum of the lengths of the first k capabilities.
RECURSIVE SumLengths(_, _)
SumLengths(caps, k) == IF k = 0 THEN 0 ELSE caps[k].length + SumLengths(caps, k - 1)

\* The (capability position, local id) pairs of the shared list.
IdPairs ==
    { <<k, i>> \in (1..Len(shared_capabilities)) \X (0..MaxLocalId) :
          i < shared_capabilities[k].length }

\* C6: the mapping start_send uses from (capability, local id < length) to
\* wire id is injective, its image is exactly [0x10, 0x10 + sum of lengths),
\* and capability k occupies [base_k, base_k + length_k) with base_0 = 0x10 and
\* base_{k+1} = base_k + length_k.
WireIdPartition ==
    LET caps == shared_capabilities
        wire(p) == WireId(caps, caps[p[1]], p[2])
    IN /\ \A p \in IdPairs : wire(p) = 16 + SumLengths(caps, p[1] - 1) + p[2]
       /\ \A p, q \in IdPairs : wire(p) = wire(q) => p = q
       /\ { wire(p) : p \in IdPairs } = 16..(16 + SumLengths(caps, Len(caps)) - 1)
       /\ (last.op = "start_send" /\ last.msg.t = "Subprotocol" /\ handed # <<>>) =>
              \E p \in IdPairs :
                  /\ caps[p[1]].name = last.msg.cap_name
                  /\ p[2] = last.msg.id
                  /\ handed = <<Frame(<<16 + SumLengths(caps, p[1] - 1) + p[2]>>,
                                     BytesLen(last.msg.data), last.msg.data)>>

\* C6 witness: a message of the third capability of a list has just been framed.
WireIdPartitionWitness ==
    /\ Len(shared_capabilities) = 3
    /\ last.op = "start_send"
    /\ last.msg.t = "Subprotocol"
    /\ last.msg.cap_name = shared_capabilities[3].name
    /\ last.msg.id = 1
    /\ handed # <<>>

\* ---------------------------------------------------------------- PeerStream::new

\* A handshake frame: RLP(message id) followed by the bare RLP payload, which
\* is a HelloMessage with the capability list `hello`, or other bytes.
HelloFrame(idbytes, caps) == [t |-> "raw", id |-> idbytes, hello |-> caps]

OtherFrame(idbytes, data) == [t |-> "raw", id |-> idbytes, bytes |-> data]

\* caps.push(CapabilityMessage { name: cap.name, version: cap.version })
CapabilityMessages(caps) ==
    [i \in 1..Len(caps) |-> [name |-> caps[i].name, version |-> caps[i].version]]

\* What transport.try_next() may give PeerStream::new.
HelloItems ==
    { HelloFrame(<<128>>, r) : r \in RemoteLists }
    \cup { OtherFrame(<<128>>, Bytes(EMPTY_LIST_RLP)),
           OtherFrame(<<1>>, Bytes(<<193, UselessPeer>>)),
           OtherFrame(<<1>>, Bytes(<<193, 12>>)),
           OtherFrame(<<2>>, Bytes(EMPTY_LIST_RLP)),
           OtherFrame(<<16>>, Bytes(EMPTY_LIST_RLP)),
           OtherFrame(<<129>>, Bytes(EMPTY_LIST_RLP)),
           [t |-> "err"], [t |-> "eof"] }

\* How a send on the transport may end: poll_ready fails, the frame is taken
\* but the flush fails, or the frame is written.
SendOutcomes == {"NotReady", "FlushFailed", "Ok"}

\* The call PeerStream::new(transport, .., capabilities, ..) starts.
HelloInit ==
    /\ pc = "send_hello"
    /\ capabilities \in LocalLists
    /\ received = [t |-> "nothing"]
    /\ sent = <<>>
    /\ result = "pending"
    /\ shared_capabilities = <<>>
    /\ disconnected = FALSE
    /\ inbound = <<>>
    /\ handed = <<>>
    /\ last = [op |-> "none"]

\* transport.send(outbound_hello.freeze()).await?
SendHello ==
    \E outcome \in SendOutcomes :
        /\ pc = "send_hello"
        /\ IF outcome = "Ok"
           THEN /\ sent' = Append(sent, HelloFrame(RlpEncodeUint(0),
                                                   CapabilityMessages(capabilities)))
                /\ pc' = "read_hello"
                /\ result' = result
           ELSE /\ sent' = sent
                /\ pc' = "done"
                /\ result' = "transport error"
        /\ UNCHANGED <<capabilities, received>>
        /\ UNCHANGED <<sessionVars, trackerVars, serverVars, lockVars>>

\* The failure PeerStream::new ends with on the first frame, or "" to go on.
MutantHelloFailureNoDisconnectArm(item) ==
    IF item.t = "err" THEN "transport error"
    ELSE IF item.t = "eof" THEN "hello failed (no value)"
    ELSE IF RlpDecodeUintByte(item.id[1]) = -1 THEN "hello failed (message id)"
    ELSE IF RlpDecodeUintByte(item.id[1]) # 0 THEN "Hello failed because message id is not 0"
    ELSE IF "hello" \notin DOMAIN item THEN "hello failed (rlp)"
    ELSE ""

HelloFailure(item) ==
    IF item.t = "err" THEN "transport error"
    ELSE IF item.t = "eof" THEN "hello failed (no value)"
    ELSE IF RlpDecodeUintByte(item.id[1]) = -1 THEN "hello failed (message id)"
    ELSE IF RlpDecodeUintByte(item.id[1]) = 1 THEN "explicit disconnect"
    ELSE IF RlpDecodeUintByte(item.id[1]) # 0 THEN "Hello failed because message id is not 0"
    ELSE IF "hello" \notin DOMAIN item THEN "hello failed (rlp)"
    ELSE ""

\* transport.try_next().await and everything up to the next await: the first
\* frame is checked, the shared capabilities are computed, the PeerStream is
\* built, and with a shared capability it is returned.
ReadHello ==
    \E item \in HelloItems :
        /\ pc = "read_hello"
        /\ received' = item
        /\ IF HelloFailure(item) # ""
           THEN /\ pc' = "done"
                /\ result' = HelloFailure(item)
                /\ shared_capabilities' = shared_capabilities
           ELSE /\ shared_capabilities' = SharedCapabilities(capabilities, item.hello)
                /\ IF SharedCapabilities(capabilities, item.hello) = <<>>
                   THEN pc' = "send_disconnect" /\ result' = result
                   ELSE pc' = "done" /\ result' = "Ok"
        /\ UNCHANGED <<capabilities, sent, disconnected, inbound, handed, last>>
        /\ UNCHANGED <<trackerVars, serverVars, lockVars>>

\* let _ = this.send(..).await; bail!("handshake failed - no shared capabilities")
\* : the error PeerStream::new ends with, whatever the send's outcome.
MutantUselessPeerResultPropagates(outcome) ==
    IF outcome = "Ok" THEN "handshake failed - no shared capabilities"
    ELSE "transport error"

UselessPeerResult(outcome) == "handshake failed - no shared capabilities"

\* let _ = this.send(PeerMessage::Disconnect(UselessPeer)).await; bail!(..)
SendUselessPeer ==
    \E outcome \in SendOutcomes :
        LET r == StartSend(shared_capabilities, disconnected, Disconnect(UselessPeer)) IN
        /\ pc = "send_disconnect"
        /\ IF outcome = "NotReady"
           THEN disconnected' = disconnected /\ handed' = <<>>
           ELSE disconnected' = r.latch /\ handed' = r.frames
        /\ sent' = IF outcome = "Ok" THEN sent \o r.frames ELSE sent
        /\ last' = [op |-> "send", msg |-> Disconnect(UselessPeer), res |-> outcome]
        /\ pc' = "done"
        /\ result' = UselessPeerResult(outcome)
        /\ UNCHANGED <<capabilities, received, shared_capabilities, inbound>>
        /\ UNCHANGED <<trackerVars, serverVars, lockVars>>

HelloNext == SendHello \/ ReadHello \/ SendUselessPeer

\* A handshake about to start, beside a fresh tracker.
HelloStart == HelloInit /\ TrackerInit /\ NoServer /\ NoLocks

SpecHello == HelloStart /\ [][HelloNext]_vars

\* ---------------------------------------------------------------- handshake claims

\* PeerStream::new has read a Hello (message id 0x00, a decodable HelloMessage).
HelloWasRead ==
    /\ received.t = "raw"
    /\ received.id = <<128>>
    /\ "hello" \in DOMAIN received

\* The versions of name n in local /\ remote, by (name, version) equality.
CommonVersions(n) ==
    { capabilities[i].version : i \in
        { i \in 1..Len(capabilities) :
            /\ capabilities[i].name = n
            /\ \E j \in 1..Len(received.hello) :
                   /\ received.hello[j].name = n
                   /\ received.hello[j].version = capabilities[i].version } }

\* C7: the shared capability set holds, for each name in local /\ remote,
\* exactly one entry, with the maximum common version of that name, and no
\* entry for any other name.
CapSelection ==
    HelloWasRead =>
        \A n \in CapNames :
            LET at == { k \in 1..Len(shared_capabilities) : shared_capabilities[k].name = n }
            IN IF CommonVersions(n) = {}
               THEN at = {}
               ELSE /\ Cardinality(at) = 1
                    /\ \A k \in at :
                           /\ shared_capabilities[k].version \in CommonVersions(n)
                           /\ \A v \in CommonVersions(n) : v <= shared_capabilities[k].version
                           /\ \E i \in 1..Len(capabilities) :
                                  capabilities[i] = shared_capabilities[k]

\* C7 witness: both sides list eth/63 and eth/64 and one more common
\* capability; the session is returned with eth/64 and the other one.
CapSelectionWitness ==
    /\ HelloWasRead
    /\ result = "Ok"
    /\ CommonVersions("eth") = {63, 64}
    /\ Len(shared_capabilities) = 2
    /\ \E k \in 1..2 : shared_capabilities[k].name = "eth"

\* No (name, version) pair is on both lists.
NothingInCommon == HelloWasRead /\ \A n \in CapNames : CommonVersions(n) = {}

UselessPeerFrame == Frame(<<1>>, 1, Bytes(<<UselessPeer>>))

\* C8: with an empty shared capability set PeerStream::new attempts to send
\* exactly one Disconnect(UselessPeer) frame (wire id 0x01), ignores how that
\* send ends, and fails; no PeerStream is returned.
UselessPeerIsRefused ==
    /\ NothingInCommon => result # "Ok"
    /\ (NothingInCommon /\ pc = "done") =>
           /\ result = "handshake failed - no shared capabilities"
           /\ last.op = "send"
           /\ last.msg = Disconnect(UselessPeer)
           /\ sent = <<HelloFrame(<<128>>, CapabilityMessages(capabilities))>>
                         \o (IF last.res = "Ok" THEN <<UselessPeerFrame>> ELSE <<>>)
           /\ handed = IF last.res = "NotReady" THEN <<>> ELSE <<UselessPeerFrame>>
    /\ result = "Ok" => (shared_capabilities # <<>> /\ ~NothingInCommon
                             /\ Len(sent) = 1 /\ last.op = "none")

\* C8 witness: the Disconnect(UselessPeer) send failed at the flush and the
\* handshake ended with the no-shared-capabilities error all the same.
UselessPeerIsRefusedWitness ==
    /\ NothingInCommon
    /\ pc = "done"
    /\ capabilities # <<>>
    /\ received.hello # <<>>
    /\ last.op = "send"
    /\ last.res = "FlushFailed"
    /\ result = "handshake failed - no shared capabilities"

\* ---------------------------------------------------------------- peers_with_min_block

\* peers_by_block.range(block..): the keys the range scan visits.
MutantRangeFromExclusive(pbb, block) == { k \in DOMAIN pbb : k > block }

RangeFrom(pbb, block) == { k \in DOMAIN pbb : k >= block }

\* BlockTracker::peers_with_min_block: the union of the peer sets of the range.
peers_with_min_block(block) ==
    UNION { peers_by_block[k] : k \in RangeFrom(peers_by_block, block) }

\* C18: in every tracker state reachable by set_block_number and remove_peer,
\* peers_with_min_block(h) is exactly the set of peers whose recorded height is
\* at least h, for every h; a peer lowered below h is not returned.
MinBlockIsExact ==
    \A h \in 0..(MaxHeight + 1) :
        peers_with_min_block(h) =
            { p \in DOMAIN block_by_peer : block_by_peer[p] >= h }

\* C18 witness: a peer has just been lowered from a height it shared with
\* another peer, so the scan from the old height still returns that other peer
\* and no longer returns the lowered one.
MinBlockIsExactWitness ==
    /\ tracker_last.op = "set_block_number"
    /\ tracker_last.old > tracker_last.block
    /\ tracker_last.block >= 0
    /\ peers_with_min_block(tracker_last.old) # {}
    /\ tracker_last.peer \notin peers_with_min_block(tracker_last.old)
    /\ tracker_last.peer \in peers_with_min_block(tracker_last.block)

\* ---------------------------------------------------------------- inbound ids

\* The frame poll_next is about to read has a wire id from 0x10 on.
HeadIsSubprotocolFrame ==
    /\ ~disconnected
    /\ inbound # <<>>
    /\ Head(inbound).t = "frame"
    /\ Head(inbound).id[1] \in 16..127

\* The capability position k with base_k <= w < base_k + length_k, where
\* base_k = 0x10 + the lengths before k; 0 when w is past the last capability.
OwnerOf(caps, w) ==
    IF \E k \in 1..Len(caps) :
           /\ 16 + SumLengths(caps, k - 1) <= w
           /\ w < 16 + SumLengths(caps, k)
    THEN CHOOSE k \in 1..Len(caps) :
             /\ 16 + SumLengths(caps, k - 1) <= w
             /\ w < 16 + SumLengths(caps, k)
    ELSE 0

\* C19: an inbound frame with wire id w >= 0x10 yields the invalid-message-id
\* error when w - 0x10 >= the sum of the shared lengths, and otherwise
\* Subprotocol{cap_k.name, w - base_k} for the capability k that owns w, so
\* every yielded local id is below the length of the capability it names.
InboundIdDecodes ==
    [][(HeadIsSubprotocolFrame /\ HeadDecompresses /\ poll_next) =>
          LET caps == shared_capabilities
              w == Head(inbound).id[1]
              k == OwnerOf(caps, w)
          IN /\ (w - 16 >= SumLengths(caps, Len(caps))) =>
                    last'.item = PollErr("Other", "invalid message id (out of cap range)")
             /\ (w - 16 < SumLengths(caps, Len(caps))) =>
                    last'.item = PollOk(Subprotocol(caps[k].name,
                                                    w - 16 - SumLengths(caps, k - 1),
                                                    Head(inbound).body))
             /\ (last'.item.t = "Ok" /\ last'.item.msg.t = "Subprotocol") =>
                    \E i \in 1..Len(caps) :
                        /\ caps[i].name = last'.item.msg.cap_name
                        /\ last'.item.msg.id < caps[i].length]_vars

\* ---------------------------------------------------------------- first frame

\* The message id of the first frame PeerStream::new received, -1 when its
\* first byte is no RLP integer, -2 when no frame was received.
FirstFrameId ==
    IF received.t = "raw" THEN RlpDecodeUintByte(received.id[1]) ELSE -2

\* C20: PeerStream::new sends the local Hello frame (message id 0x00) before it
\* reads the first frame; it returns a session only if the first received
\* frame has message id 0x00; a first frame with id 0x01 ends it with the
\* explicit-disconnect error and any other id with the not-a-Hello error, and
\* in both cases nothing more is sent and no session is returned.
HelloComesFirst ==
    /\ received.t # "nothing" =>
           /\ Len(sent) >= 1
           /\ sent[1] = HelloFrame(<<128>>, CapabilityMessages(capabilities))
    /\ result = "Ok" => (FirstFrameId = 0 /\ shared_capabilities # <<>>)
    /\ FirstFrameId = 1 =>
           /\ result = "explicit disconnect"
           /\ pc = "done"
           /\ Len(sent) = 1
           /\ shared_capabilities = <<>>
    /\ FirstFrameId >= 2 =>
           /\ result = "Hello failed because message id is not 0"
           /\ pc = "done"
           /\ Len(sent) = 1
           /\ shared_capabilities = <<>>

\* C20 witness: the handshake has ended on a first frame that is a Disconnect.
HelloComesFirstWitness ==
    /\ pc = "done"
    /\ FirstFrameId = 1
    /\ result = "explicit disconnect"
    /\ sent = <<HelloFrame(<<128>>, CapabilityMessages(capabilities))>>

\* ---------------------------------------------------------------- eth/64 types

NumServerPeers == 2

\* The peers the capability server is driven with.
ServerPeers == 1..NumServerPeers

\* MessageId::from_usize: the eth/64 message of a subprotocol-local id.
MessageIdFromUsize(id) ==
    CASE id = 0 -> "Status"
      [] id = 1 -> "NewBlockHashes"
      [] id = 2 -> "Transactions"
      [] id = 3 -> "GetBlockHeaders"
      [] id = 4 -> "BlockHeaders"
      [] id = 5 -> "GetBlockBodies"
      [] id = 6 -> "BlockBodies"
      [] id = 7 -> "NewBlock"
      [] OTHER -> "None"

\* MessageId::to_usize
MessageIdToUsize(m) ==
    CASE m = "Status" -> 0
      [] m = "NewBlockHashes" -> 1
      [] m = "Transactions" -> 2
      [] m = "GetBlockHeaders" -> 3
      [] m = "BlockHeaders" -> 4
      [] m = "GetBlockBodies" -> 5
      [] m = "BlockBodies" -> 6
      [] m = "NewBlock" -> 7

\* capability_name()
capability_name == "eth"

\* OutboundEvent::Message { capability_name, message: Message { id, data } }
OutboundMessage(id, data) ==
    [t |-> "Message", capability_name |-> capability_name, id |-> id, data |-> data]

\* OutboundEvent::Disconnect { reason }
OutboundDisconnect(reason) == [t |-> "Disconnect", reason |-> reason]

\* InboundEvent::Disconnect { .. } and InboundEvent::Message { message, .. }
InboundDisconnect == [t |-> "Disconnect"]

InboundMessage(id, data) == [t |-> "Message", id |-> id, data |-> data]

\* Payloads. rlp::encode of a value is the value tagged with its type; bytes
\* that decode as nothing are BadRlp.
BadRlp == [rlp |-> "bad"]

RlpOf(type, value) == [rlp |-> type, value |-> value]

\* rlp::decode::<T>(&data) is Ok, and the value it then gives.
RlpDecodes(type, data) == data.rlp = type

RlpDecode(type, data) == data.value

\* Rlp::new(&data).as_list() is Ok for any RLP list, and gives its items.
RlpIsList(data) == data.rlp \in {"hashes", "list"}

RlpAsList(data) == data.value

\* BlockId::Number(num) and BlockId::Hash(hash)
Number(num) == [t |-> "Number", n |-> num]

Hash(hash) == [t |-> "Hash", h |-> hash]

\* The fork ids a remote Status may carry, and what status_message may hold:
\* None, or Some of a StatusData with the fork ids its ForkFilter accepts.
ForkIds == {1, 2}

NoStatus == [installed |-> FALSE]

StatusValues ==
    { [installed |-> TRUE, network_id |-> 1, current |-> 1, accepts |-> {1}] }

\* ForkFilter::is_compatible(fork_id).is_ok()
is_compatible(fork_filter, fork_id) == fork_id \in fork_filter.accepts

\* StatusMessage { protocol_version: 64, network_id, .., fork_id }
StatusMessage(network_id, fork_id) ==
    [protocol_version |-> 64, network_id |-> network_id, fork_id |-> fork_id]

\* ---------------------------------------------------------------- mailbox

\* The first events of on_peer_connect, given what status_message holds.
MutantFirstEventsTransactionsFirst(status) ==
    IF status.installed
    THEN << OutboundMessage(MessageIdToUsize("Transactions"), RlpOf("list", <<>>)),
            OutboundMessage(MessageIdToUsize("Status"),
                            RlpOf("status", StatusMessage(status.network_id, status.current))) >>
    ELSE << OutboundDisconnect(DisconnectRequested) >>

first_events(status) ==
    IF status.installed
    THEN << OutboundMessage(MessageIdToUsize("Status"),
                            RlpOf("status", StatusMessage(status.network_id, status.current))),
            OutboundMessage(MessageIdToUsize("Transactions"), RlpOf("list", <<>>)) >>
    ELSE << OutboundDisconnect(DisconnectRequested) >>

\* No channel was made for the peer yet.
NoMailbox == [made |-> FALSE, prelude |-> <<>>, queue |-> <<>>]

\* channel(1) and tokio::stream::iter(first_events).chain(receiver)
NewMailbox(events) == [made |-> TRUE, prelude |-> events, queue |-> <<>>]

\* The capacity of the channel.
ChannelCapacity == 1

\* A send completes only into a channel with a free slot.
MutantHasRoomOneMore(queue) == Len(queue) <= ChannelCapacity

HasRoom(queue) == Len(queue) < ChannelCapacity

\* Calls of next that hold the receiver of a peer: none, one polling it
\* ("waiting"), or one polling it and one more queued on its lock ("waiting2").
InFlight(n) == n \in {"waiting", "waiting2"}

\* The live senders of a peer's channel: the one in its Pipes and the clone a
\* running on_peer_event holds while it sends.
Senders(p) ==
    (IF p \in peer_pipes THEN 1 ELSE 0)
        + (IF event_task[p].st = "send" THEN 1 ELSE 0)

\* The receiver is alive: it is in the Pipes, or a running next holds it.
ReceiverAlive(p) == p \in peer_pipes \/ InFlight(next_task[p])

\* The channel of a peer is freed once nothing refers to it: its Pipes are
\* gone, no next holds the receiver and no on_peer_event holds a sender.
Reclaim(mb, pipes, tasks, nexts, peer) ==
    IF peer \notin pipes /\ tasks[peer].st # "send" /\ ~InFlight(nexts[peer])
    THEN NoMailbox
    ELSE mb

\* What the receiver stream yields next: the head of the prelude while there
\* is one, then the head of the channel; and the stream that is left.
MutantTakeChannelFirst(mb) ==
    IF mb.queue # <<>>
    THEN [item |-> Head(mb.queue), rest |-> [mb EXCEPT !.queue = Tail(mb.queue)]]
    ELSE [item |-> Head(mb.prelude), rest |-> [mb EXCEPT !.prelude = Tail(mb.prelude)]]

Take(mb) ==
    IF mb.prelude # <<>>
    THEN [item |-> Head(mb.prelude), rest |-> [mb EXCEPT !.prelude = Tail(mb.prelude)]]
    ELSE [item |-> Head(mb.queue), rest |-> [mb EXCEPT !.queue = Tail(mb.queue)]]

\* ---------------------------------------------------------------- handle_event

\* The selector handle_event passes to get_block_headers; `resolved` is what
\* resolve_block_height gave for a hash: Some height, None or an error.
MutantSelectorFastFromOne(selector, resolved) ==
    IF selector.max_headers > 0 THEN << selector.block >>
    ELSE IF selector.block.t = "Hash" /\ resolved.t = "None" THEN << >>
    ELSE IF selector.block.t = "Hash" /\ resolved.t = "Err" THEN << selector.block >>
    ELSE << Number(IF selector.block.t = "Number" THEN selector.block.n
                   ELSE resolved.height) >>

Selector(selector, resolved) ==
    IF selector.max_headers > 1 THEN << selector.block >>
    ELSE IF selector.block.t = "Hash" /\ resolved.t = "None" THEN << >>
    ELSE IF selector.block.t = "Hash" /\ resolved.t = "Err" THEN << selector.block >>
    ELSE LET anchor == IF selector.block.t = "Number" THEN selector.block.n
                       ELSE resolved.height
         IN IF selector.skip = 0 THEN << Number(anchor) >>
            ELSE << Number(anchor) >> \o
                 [i \in 1..selector.max_headers |->
                     Number(IF selector.reverse
                            THEN anchor - selector.skip * (i - 1)
                            ELSE anchor + selector.skip * (i - 1))]

\* .filter_map(..).collect(): the items the data provider did not fail on.
MutantCollectOkKeepsErrored(items, failed) == items

RECURSIVE CollectOk(_, _)
CollectOk(items, failed) ==
    IF items = << >> THEN << >>
    ELSE (IF 1 \in failed THEN << >> ELSE << Head(items) >>) \o
         CollectOk(Tail(items), { i - 1 : i \in failed \ {1} })

\* Ok(None), Ok(Some(message)) and Err(reason) of handle_event.
RetNone == [t |-> "None"]

RetMessage(id, data) == [t |-> "Some", id |-> id, data |-> data]

RetErr(reason) == [t |-> "Err", reason |-> reason]

\* handle_event has not returned: it awaits the data provider.
RetPending == [t |-> "Pending"]

\* let valid_peer = self.valid_peers.read().contains(&peer)
MutantValidPeerAlways(valid, peer) == TRUE

ValidPeer(valid, peer) == peer \in valid

\* if let Some((_, fork_filter)) = &*status_data { is_compatible(..)?; insert }
\* : TRUE when the peer is inserted into valid_peers.
MutantAdmitsWithoutStatus(status, fork_id) ==
    IF ~status.installed THEN TRUE ELSE is_compatible(status, fork_id)

Admits(status, fork_id) ==
    IF ~status.installed THEN FALSE ELSE is_compatible(status, fork_id)

\* The Status arm: what it returns.
StatusRet(status, data) ==
    IF ~RlpDecodes("status", data) THEN RetErr(ProtocolBreach)
    ELSE IF ~status.installed THEN RetNone
    ELSE IF ~is_compatible(status, RlpDecode("status", data).fork_id)
    THEN RetErr(UselessPeer)
    ELSE RetNone

\* Nothing was forwarded to the control sink; the data provider was not asked.
NoForward == [id |-> "none"]

NoRequest == [kind |-> "none"]

\* handle_event on a Message up to its first await or its return: what it
\* returns, whether the peer is inserted into valid_peers, the message it
\* forwards to the control sink and the request it awaits the data provider on.
HandleMessage(valid_peer, status, peer, id, data) ==
    LET message_id == MessageIdFromUsize(id)
        quiet == [ret |-> RetNone, insert |-> FALSE,
                  forwarded |-> NoForward, request |-> NoRequest]
    IN IF message_id = "None" THEN quiet
       ELSE IF message_id = "Status"
       THEN [quiet EXCEPT
                !.ret = StatusRet(status, data),
                !.insert = IF ~RlpDecodes("status", data) THEN FALSE
                           ELSE Admits(status, RlpDecode("status", data).fork_id)]
       ELSE IF message_id = "GetBlockHeaders" /\ valid_peer
       THEN IF ~RlpDecodes("get_block_headers", data)
            THEN [quiet EXCEPT !.ret = RetErr(ProtocolBreach)]
            ELSE [quiet EXCEPT
                     !.ret = RetPending,
                     !.request = [kind |-> "headers",
                                  selector |-> RlpDecode("get_block_headers", data)]]
       ELSE IF message_id = "GetBlockBodies" /\ valid_peer
       THEN IF ~RlpIsList(data)
            THEN [quiet EXCEPT !.ret = RetErr(ProtocolBreach)]
            ELSE [quiet EXCEPT
                     !.ret = RetPending,
                     !.request = [kind |-> "bodies", blocks |-> RlpAsList(data)]]
       ELSE IF message_id \in {"BlockHeaders", "BlockBodies", "NewBlock", "NewBlockHashes"}
               /\ valid_peer
       THEN [quiet EXCEPT !.forwarded = [id |-> message_id, data |-> data, peer_id |-> peer]]
       ELSE quiet

\* What handle_event got from resolve_block_height: it asks only for a hash
\* anchor outside the fast case.
Unasked == [t |-> "Unasked"]

Asked(request, resolved) ==
    IF request.kind = "headers"
       /\ request.selector.max_headers <= 1
       /\ request.selector.block.t = "Hash"
    THEN resolved
    ELSE Unasked

\* The items handle_event asks the data provider for.
Wanted(request, resolved) ==
    IF request.kind = "headers" THEN Selector(request.selector, resolved)
    ELSE request.blocks

\* handle_event after the data provider answered: the reply it returns.
Reply(request, resolved, failed) ==
    IF request.kind = "headers"
    THEN RetMessage(MessageIdToUsize("BlockHeaders"),
                    RlpOf("list", CollectOk(Selector(request.selector, resolved), failed)))
    ELSE RetMessage(MessageIdToUsize("BlockBodies"),
                    RlpOf("list", CollectOk(request.blocks, failed)))

\* teardown_peer: valid_peers.remove(&peer)
MutantTeardownKeepsValid(valid, peer) == valid

TeardownValid(valid, peer) == valid \ {peer}

\* on_peer_event once handle_event returned `ret`: nothing to send, or the
\* sender lookup (which panics without pipes) and the event to send.
MutantAfterHandleDropsReason(pipes, peer, ret) ==
    IF ret.t \in {"None", "Pending"} THEN [st |-> "idle"]
    ELSE IF peer \notin pipes THEN [st |-> "panicked"]
    ELSE [st |-> "send",
          ev |-> IF ret.t = "Some" THEN OutboundMessage(ret.id, ret.data)
                 ELSE OutboundDisconnect(DisconnectRequested)]

AfterHandle(pipes, peer, ret) ==
    IF ret.t \in {"None", "Pending"} THEN [st |-> "idle"]
    ELSE IF peer \notin pipes THEN [st |-> "panicked"]
    ELSE [st |-> "send",
          ev |-> IF ret.t = "Some" THEN OutboundMessage(ret.id, ret.data)
                 ELSE OutboundDisconnect(ret.reason)]

\* ---------------------------------------------------------------- server inputs

\* GetBlockHeaders requests: a hash anchor to resolve.
HeaderRequests ==
    { [block |-> Hash(1), max_headers |-> 1, skip |-> 0, reverse |-> FALSE] }

\* The inbound events of a peer: Disconnect; Status with either fork id and
\* undecodable; requests, decodable and not; gossip and replies; Transactions;
\* an id that is no eth/64 message.
ServerEvents ==
    { InboundDisconnect }
    \cup { InboundMessage(0, RlpOf("status", StatusMessage(1, f))) : f \in ForkIds }
    \cup { InboundMessage(3, RlpOf("get_block_headers", g)) : g \in HeaderRequests }
    \cup { InboundMessage(5, RlpOf("hashes", << 1, 2 >>)) }
    \cup { InboundMessage(i, BadRlp) : i \in {0, 3, 5, 7} }
    \cup { InboundMessage(i, RlpOf("list", << >>)) : i \in {1, 2, 4, 6, 8} }

\* The second and later peers are bystanders: they are driven with the events
\* that register, validate and tear them down, and their outbound pump does
\* not run.
BystanderEvents ==
    { InboundDisconnect,
      InboundMessage(0, RlpOf("status", StatusMessage(1, 1))) }

EventsOf(peer) == IF peer = 1 THEN ServerEvents ELSE BystanderEvents

PumpedPeers == {1}

\* The positions of its answer the data provider may fail on.
MaxItems == 2

Failures == SUBSET (1..MaxItems)

\* What resolve_block_height may give.
Resolutions == { [t |-> "Some", height |-> 2], [t |-> "None"], [t |-> "Err"] }

\* ---------------------------------------------------------------- server actions

\* CapabilityServerImpl { peer_pipes: Default::default(), .. } with the status
\* not fetched yet, and no call running.
ServerInit ==
    /\ status_message = [installed |-> FALSE]
    /\ valid_peers = {}
    /\ peer_pipes = {}
    /\ mailbox = [p \in ServerPeers |-> NoMailbox]
    /\ event_task = [p \in ServerPeers |-> [st |-> "idle"]]
    /\ next_task = [p \in ServerPeers |-> "idle"]
    /\ server_last = [op |-> "new"]

\* What one iteration of the status updater may meet: control.get_status_data,
\* data_provider.get_status_data (asked when control failed) and
\* resolve_block_height of the best hash (asked when either gave a status).
RefreshOutcomes ==
    { o \in [control : {"Ok", "Err"},
             provider : {"Ok", "Err", "Unasked"},
             best : {"Some", "None", "Err", "Unasked"}] :
        /\ (o.provider = "Unasked") = (o.control = "Ok")
        /\ (o.best = "Unasked") = (o.control = "Err" /\ o.provider = "Err") }

\* What the iteration stores: the fetched status when either source gave one
\* and its best hash resolved, None otherwise.
MutantRefreshedKeepsOld(old, control, provider, best, fetched) ==
    IF control = "Err" /\ provider = "Err" THEN old
    ELSE IF best # "Some" THEN old
    ELSE fetched

Refreshed(old, control, provider, best, fetched) ==
    IF control = "Err" /\ provider = "Err" THEN NoStatus
    ELSE IF best # "Some" THEN NoStatus
    ELSE fetched

\* One iteration of the status updater.
refresh_status(control, provider, best) ==
    \E s \in StatusValues :
        /\ status_message' = Refreshed(status_message, control, provider, best, s)
        /\ server_last' = [op |-> "quiet"]
        /\ UNCHANGED <<valid_peers, peer_pipes, mailbox, event_task, next_task>>
        /\ UNCHANGED <<trackerVars, sessionVars, helloVars, lockVars>>

\* on_peer_connect, for a peer whose earlier channel no call still holds.
\* setup_peer inserts the new Pipes and asserts that the peer had none: for a
\* peer that had, the Pipes are replaced and the call panics before
\* set_block_number.
on_peer_connect(peer) ==
    /\ ~InFlight(next_task[peer])
    /\ event_task[peer].st # "send"
    /\ mailbox' = [mailbox EXCEPT ![peer] = NewMailbox(first_events(status_message))]
    /\ peer_pipes' = peer_pipes \cup {peer}
    /\ IF peer \in peer_pipes
       THEN UNCHANGED trackerVars
       ELSE set_block_number(peer, 0)
    /\ server_last' = [op |-> "quiet"]
    /\ UNCHANGED <<status_message, valid_peers, event_task, next_task>>
    /\ UNCHANGED <<sessionVars, helloVars, lockVars>>

\* handle_event on InboundEvent::Disconnect: teardown_peer, and Ok(None).
teardown_peer(peer) ==
    /\ peer_pipes' = peer_pipes \ {peer}
    /\ remove_peer(peer)
    /\ valid_peers' = TeardownValid(valid_peers, peer)
    /\ mailbox' = [mailbox EXCEPT
                      ![peer] = Reclaim(@, peer_pipes', event_task, next_task, peer)]
    /\ server_last' = [op |-> "teardown_peer"]
    /\ UNCHANGED <<status_message, event_task, next_task>>
    /\ UNCHANGED <<sessionVars, helloVars, lockVars>>

\* on_peer_event on a Message: handle_event up to its first await or its
\* return, then the sender lookup. An awaiting call remembers whether the peer
\* had pipes when the event arrived; no operation reads that.
on_peer_event(peer, event) ==
    LET h == HandleMessage(ValidPeer(valid_peers, peer), status_message,
                           peer, event.id, event.data)
    IN /\ event.t = "Message"
       /\ event_task[peer].st = "idle"
       /\ valid_peers' = IF h.insert THEN valid_peers \cup {peer} ELSE valid_peers
       /\ event_task' =
              [event_task EXCEPT ![peer] =
                  IF h.request.kind # "none"
                  THEN [st |-> "await", request |-> h.request,
                        registered |-> peer \in peer_pipes]
                  ELSE AfterHandle(peer_pipes, peer, h.ret)]
       /\ server_last' = [op |-> "on_peer_event", id |-> event.id,
                          ret |-> h.ret, forwarded |-> h.forwarded]
       /\ UNCHANGED <<status_message, peer_pipes, mailbox, next_task>>
       /\ UNCHANGED <<trackerVars, sessionVars, helloVars, lockVars>>

\* The data provider answers: handle_event returns the reply, and
\* on_peer_event looks the sender up.
provider_returns(peer) ==
    \E resolved \in Resolutions, failed \in Failures :
        LET ret == Reply(event_task[peer].request, resolved, failed)
        IN /\ event_task[peer].st = "await"
           /\ event_task' = [event_task EXCEPT ![peer] = AfterHandle(peer_pipes, peer, ret)]
           /\ server_last' =
                  [op |-> "data_provider",
                   resolved |-> Asked(event_task[peer].request, resolved),
                   selector |-> Wanted(event_task[peer].request, resolved),
                   failed |-> failed \cap
                              (1..Len(Wanted(event_task[peer].request, resolved)))]
           /\ UNCHANGED <<status_message, valid_peers, peer_pipes, mailbox, next_task>>
           /\ UNCHANGED <<trackerVars, sessionVars, helloVars, lockVars>>

\* sender.send(ev).await completes: the event enters the channel once it has
\* room, or the send fails because the receiver is gone; the result is ignored.
send_completes(peer) ==
    /\ event_task[peer].st = "send"
    /\ event_task' = [event_task EXCEPT ![peer] = [st |-> "idle"]]
    /\ IF ReceiverAlive(peer)
       THEN /\ HasRoom(mailbox[peer].queue)
            /\ mailbox' = [mailbox EXCEPT
                              ![peer] = Reclaim([@ EXCEPT !.queue = Append(@, event_task[peer].ev)],
                                                peer_pipes, event_task', next_task, peer)]
       ELSE mailbox' = [mailbox EXCEPT
                           ![peer] = Reclaim(@, peer_pipes, event_task', next_task, peer)]
    /\ server_last' = [op |-> "send", ok |-> ReceiverAlive(peer)]
    /\ UNCHANGED <<status_message, valid_peers, peer_pipes, next_task>>
    /\ UNCHANGED <<trackerVars, sessionVars, helloVars, lockVars>>

\* next(peer) starts: self.receiver(peer).unwrap() panics without pipes;
\* otherwise the call holds the receiver and polls it.
next_call(peer) ==
    /\ next_task[peer] = "idle"
    /\ next_task' = [next_task EXCEPT ![peer] =
                        IF peer \in peer_pipes THEN "waiting" ELSE "panicked"]
    /\ server_last' = [op |-> "quiet"]
    /\ UNCHANGED <<status_message, valid_peers, peer_pipes, mailbox, event_task>>
    /\ UNCHANGED <<trackerVars, sessionVars, helloVars, lockVars>>

\* A second next(peer) starts while one is polling the receiver: it clones the
\* receiver and queues on its lock.
next_call_again(peer) ==
    /\ next_task[peer] = "waiting"
    /\ peer \in peer_pipes
    /\ next_task' = [next_task EXCEPT ![peer] = "waiting2"]
    /\ server_last' = [op |-> "quiet"]
    /\ UNCHANGED <<status_message, valid_peers, peer_pipes, mailbox, event_task>>
    /\ UNCHANGED <<trackerVars, sessionVars, helloVars, lockVars>>

\* The next(peer) holding the lock returns, and a queued call takes the lock
\* over: the next item of the receiver stream, or, when the stream has ended
\* (nothing pending and no sender left), DisconnectRequested.
next_return(peer) ==
    /\ InFlight(next_task[peer])
    /\ next_task' = [next_task EXCEPT
                        ![peer] = IF @ = "waiting2" THEN "waiting" ELSE "idle"]
    /\ IF mailbox[peer].prelude # << >> \/ mailbox[peer].queue # << >>
       THEN /\ mailbox' = [mailbox EXCEPT
                              ![peer] = Reclaim(Take(@).rest, peer_pipes, event_task,
                                                next_task', peer)]
            /\ server_last' = [op |-> "next", ev |-> Take(mailbox[peer]).item,
                               ended |-> FALSE]
       ELSE /\ Senders(peer) = 0
            /\ mailbox' = [mailbox EXCEPT
                              ![peer] = Reclaim(@, peer_pipes, event_task, next_task', peer)]
            /\ server_last' = [op |-> "next",
                               ev |-> OutboundDisconnect(DisconnectRequested),
                               ended |-> TRUE]
    /\ UNCHANGED <<status_message, valid_peers, peer_pipes, event_task>>
    /\ UNCHANGED <<trackerVars, sessionVars, helloVars, lockVars>>

RefreshStatus ==
    \E o \in RefreshOutcomes : refresh_status(o.control, o.provider, o.best)

OnPeerConnect == \E p \in ServerPeers : on_peer_connect(p)

TeardownPeer == \E p \in ServerPeers : teardown_peer(p)

OnPeerEvent == \E p \in ServerPeers : \E e \in EventsOf(p) : on_peer_event(p, e)

ProviderReturns == \E p \in ServerPeers : provider_returns(p)

SendCompletes == \E p \in ServerPeers : send_completes(p)

NextCall == \E p \in PumpedPeers : next_call(p)

NextReturn == \E p \in PumpedPeers : next_return(p)

ServerNext ==
    \/ RefreshStatus
    \/ OnPeerConnect
    \/ TeardownPeer
    \/ OnPeerEvent
    \/ ProviderReturns
    \/ SendCompletes
    \/ NextCall
    \/ NextReturn

\* A fresh capability server, with no session and no handshake.
ServerStart == ServerInit /\ TrackerInit /\ NoSession /\ NoHandshake /\ NoLocks

SpecServer == ServerStart /\ [][ServerNext]_vars

\* ---------------------------------------------------------------- mailbox claims

\* C11: the prelude on_peer_connect builds depends only on whether a status is
\* installed at the call: with one, exactly the local Status message (id 0x00)
\* then an empty Transactions message (id 0x02), both tagged eth; without one,
\* exactly Disconnect(DisconnectRequested).
PreludeFollowsStatus ==
    [][\A p \in ServerPeers :
          on_peer_connect(p) =>
              /\ mailbox'[p].queue = << >>
              /\ mailbox'[p].prelude =
                     IF status_message.installed
                     THEN << [t |-> "Message", capability_name |-> "eth", id |-> 0,
                              data |-> RlpOf("status",
                                             StatusMessage(status_message.network_id,
                                                           status_message.current))],
                             [t |-> "Message", capability_name |-> "eth", id |-> 2,
                              data |-> RlpOf("list", << >>)] >>
                     ELSE << [t |-> "Disconnect", reason |-> DisconnectRequested] >>]_vars

\* C11 witness: one peer connected while a status was installed and one while
\* none was, and neither prelude has been consumed.
PreludeFollowsStatusWitness ==
    /\ peer_pipes = ServerPeers
    /\ Len(mailbox[1].prelude) = 2
    /\ mailbox[1].prelude[1].id = 0
    /\ mailbox[2].prelude = << OutboundDisconnect(DisconnectRequested) >>

\* The channel of p is `mb` after the step, or was freed with its last holder.
MailboxBecomes(p, mb) ==
    \/ mailbox'[p] = mb
    \/ p \notin peer_pipes /\ mailbox'[p] = NoMailbox

\* C12: next returns the prelude events in order before any sent event, then
\* the sent events in the order their sends completed: next takes the head of
\* the prelude while there is one and the head of the channel after, and a
\* completed send goes to the back of the channel, whatever is still pending.
PreludeBeforeSends ==
    [][\A p \in ServerPeers :
          /\ (next_return(p) /\ mailbox[p].prelude # << >>) =>
                 /\ server_last'.ev = Head(mailbox[p].prelude)
                 /\ MailboxBecomes(p, [mailbox[p] EXCEPT !.prelude = Tail(@)])
          /\ (next_return(p) /\ mailbox[p].prelude = << >> /\ mailbox[p].queue # << >>) =>
                 /\ server_last'.ev = Head(mailbox[p].queue)
                 /\ MailboxBecomes(p, [mailbox[p] EXCEPT !.queue = Tail(@)])
          /\ (send_completes(p) /\ ReceiverAlive(p)) =>
                 mailbox'[p] = [mailbox[p] EXCEPT !.queue = Append(@, event_task[p].ev)]]_vars

\* C12 witness: a send completed before the prelude was consumed, and next has
\* returned the first prelude event all the same.
PreludeBeforeSendsWitness ==
    /\ server_last.op = "next"
    /\ server_last.ev.t = "Message"
    /\ server_last.ev.id = 0
    /\ Len(mailbox[1].prelude) = 1
    /\ mailbox[1].queue # << >>

\* C13: next on a peer with nothing pending returns only once an event was
\* sent, which it returns, or once the stream has ended, which it reports as
\* Disconnect(DisconnectRequested); and a call made after the stream ended
\* reports the same again.
NextReportsEndAgain ==
    [][\A p \in PumpedPeers :
          /\ (next_return(p) /\ mailbox[p].prelude = << >> /\ mailbox[p].queue = << >>) =>
                 /\ Senders(p) = 0
                 /\ server_last'.ev = OutboundDisconnect(DisconnectRequested)
          /\ (next_return(p) /\ mailbox[p].queue # << >> /\ mailbox[p].prelude = << >>) =>
                 server_last'.ev = Head(mailbox[p].queue)
          /\ (server_last.op = "next" /\ server_last.ended /\ next_call(p)) =>
                 next_task'[p] = "waiting"]_vars

\* ---------------------------------------------------------------- handle_event claims

\* e is a Status message that RLP-decodes.
IsDecodableStatus(e) == e.t = "Message" /\ e.id = 0 /\ e.data.rlp = "status"

\* C14: a peer enters valid_peers only by a decodable Status handled while a
\* status is installed whose filter accepts the remote fork id; with no status
\* installed a decodable Status returns no error, sends nothing and leaves
\* valid_peers as it is.
OnlyCompatibleStatusValidates ==
    [][/\ \A p \in ServerPeers :
              (p \notin valid_peers /\ p \in valid_peers') =>
                  \E e \in EventsOf(p) :
                      /\ IsDecodableStatus(e)
                      /\ on_peer_event(p, e)
                      /\ status_message.installed
                      /\ e.data.value.fork_id \in status_message.accepts
       /\ \A p \in ServerPeers : \A e \in EventsOf(p) :
              (IsDecodableStatus(e) /\ ~status_message.installed /\ on_peer_event(p, e)) =>
                  /\ server_last'.ret = RetNone
                  /\ event_task'[p].st = "idle"
                  /\ mailbox' = mailbox
                  /\ valid_peers' = valid_peers]_vars

\* C14 witness: a compatible Status has made the first peer, and only it, valid.
OnlyCompatibleStatusValidatesWitness ==
    /\ valid_peers = {1}
    /\ status_message.installed
    /\ server_last.op = "on_peer_event"
    /\ server_last.id = 0
    /\ server_last.ret = RetNone

\* C15: whenever handle_event returns UselessPeer because the fork filter
\* rejects the fork id of a Status from P, P is not in valid_peers afterwards,
\* whatever P was before.
RejectedStatusInvalidates ==
    [][\A p \in ServerPeers : \A e \in EventsOf(p) :
          (/\ IsDecodableStatus(e)
           /\ status_message.installed
           /\ e.data.value.fork_id \notin status_message.accepts
           /\ on_peer_event(p, e)) =>
              /\ server_last'.ret = RetErr(UselessPeer)
              /\ p \notin valid_peers']_vars

\* C16: a request, reply or gossip message from a peer that is not in
\* valid_peers enqueues no reply, asks the data provider nothing, forwards
\* nothing to the control sink and changes none of peer_pipes, the block
\* tracker and valid_peers.
InvalidPeerIsIgnored ==
    [][\A p \in ServerPeers : \A e \in EventsOf(p) :
          (/\ e.t = "Message"
           /\ e.id \in {1, 3, 4, 5, 6, 7}
           /\ p \notin valid_peers
           /\ on_peer_event(p, e)) =>
              /\ server_last'.ret = RetNone
              /\ server_last'.forwarded = NoForward
              /\ event_task' = event_task
              /\ mailbox' = mailbox
              /\ peer_pipes' = peer_pipes
              /\ block_by_peer' = block_by_peer
              /\ peers_by_block' = peers_by_block
              /\ valid_peers' = valid_peers]_vars

\* C16 witness: a GetBlockHeaders from a connected peer that is not valid has
\* been handled, while the other peer is valid.
InvalidPeerIsIgnoredWitness ==
    /\ server_last.op = "on_peer_event"
    /\ server_last.id = 3
    /\ server_last.ret = RetNone
    /\ valid_peers = {2}
    /\ peer_pipes = ServerPeers

\* C17: handling a Disconnect event of P removes P from peer_pipes, from both
\* indices of the block tracker and from valid_peers, enqueues nothing, and
\* leaves every other peer's entries as they are.
TeardownRemovesPeer ==
    [][\A p \in ServerPeers :
          teardown_peer(p) =>
              /\ p \notin peer_pipes'
              /\ p \notin DOMAIN block_by_peer'
              /\ \A h \in DOMAIN peers_by_block' : p \notin peers_by_block'[h]
              /\ p \notin valid_peers'
              /\ event_task' = event_task
              /\ mailbox'[p] \in {mailbox[p], NoMailbox}
              /\ \A q \in ServerPeers \ {p} :
                     /\ q \in peer_pipes' <=> q \in peer_pipes
                     /\ q \in valid_peers' <=> q \in valid_peers
                     /\ mailbox'[q] = mailbox[q]
                     /\ q \in DOMAIN block_by_peer' <=> q \in DOMAIN block_by_peer
                     /\ q \in DOMAIN block_by_peer =>
                            /\ block_by_peer'[q] = block_by_peer[q]
                            /\ q \in peers_by_block'[block_by_peer[q]]]_vars

\* C17 witness: a connected, valid peer has just been torn down while the other
\* peer stays connected, tracked and valid.
TeardownRemovesPeerWitness ==
    /\ server_last.op = "teardown_peer"
    /\ tracker_last.op = "remove_peer"
    /\ tracker_last.old = 0
    /\ peer_pipes = {2}
    /\ valid_peers = {2}
    /\ DOMAIN block_by_peer = {2}

\* ---------------------------------------------------------------- header selector

MaxHeaders == 3
MaxSkip == 2

\* GetBlockHeaders requests of every shape: number and hash anchors, no, one
\* and several headers, with and without skip, both directions.
SelectorRequests ==
    { [block |-> b, max_headers |-> m, skip |-> k, reverse |-> r] :
        b \in {Number(0), Number(2), Hash(1)}, m \in 0..MaxHeaders,
        k \in 0..MaxSkip, r \in BOOLEAN }

\* handle_event of a registered and validated peer has decoded a
\* GetBlockHeaders request and is about to build the selector from it.
SelectorStart ==
    /\ status_message \in StatusValues
    /\ valid_peers = {1}
    /\ peer_pipes = {1}
    /\ mailbox = [p \in ServerPeers |->
                     IF p = 1 THEN NewMailbox(first_events(status_message))
                     ELSE NoMailbox]
    /\ \E g \in SelectorRequests :
           event_task = [p \in ServerPeers |->
                            IF p = 1
                            THEN [st |-> "await",
                                  request |-> [kind |-> "headers", selector |-> g],
                                  registered |-> TRUE]
                            ELSE [st |-> "idle"]]
    /\ next_task = [p \in ServerPeers |-> "idle"]
    /\ server_last = [op |-> "on_peer_event",
                      id |-> MessageIdToUsize("GetBlockHeaders"),
                      ret |-> RetPending, forwarded |-> NoForward]
    /\ block_by_peer = MapInsert(EmptyMap, 1, 0)
    /\ peers_by_block = IndexPeer(EmptyMap, 1, 0)
    /\ tracker_last = [op |-> "set_block_number", peer |-> 1, block |-> 0, old |-> -1]
    /\ NoSession
    /\ NoHandshake
    /\ NoLocks

SelectorNext ==
    \/ ProviderReturns
    \/ SendCompletes
    \/ NextCall
    \/ NextReturn

SpecSelector == SelectorStart /\ [][SelectorNext]_vars

\* The selector the claim describes for the request g, given the anchor.
IsAnchored(selector, g, anchor) ==
    IF g.skip = 0 THEN selector = << Number(anchor) >>
    ELSE /\ Len(selector) = g.max_headers + 1
         /\ selector[1] = Number(anchor)
         /\ \A i \in 0..(g.max_headers - 1) :
                selector[i + 2] = Number(IF g.reverse THEN anchor - g.skip * i
                                         ELSE anchor + g.skip * i)

Fetched(items, failed) ==
    LET ok == { i \in 1..Len(items) : i \notin failed }
        nth(k) == CHOOSE i \in ok : Cardinality({ j \in ok : j < i }) = k - 1
    IN [k \in 1..Cardinality(ok) |-> items[nth(k)]]

\* The reply to the request the call of p awaited, given what the data
\* provider was asked and where it failed.
IsReplyTo(ev, request, asked) ==
    /\ ev.t = "Message"
    /\ ev.capability_name = capability_name
    /\ ev.id = IF request.kind = "headers" THEN MessageIdToUsize("BlockHeaders")
               ELSE MessageIdToUsize("BlockBodies")
    /\ ev.data = RlpOf("list", Fetched(asked.selector, asked.failed))

\* The request (if any) a decodable GetBlockHeaders / GetBlockBodies event is.
IsDecodableRequest(e) ==
    /\ e.t = "Message"
    /\ \/ e.id = MessageIdToUsize("GetBlockHeaders") /\ RlpDecodes("get_block_headers", e.data)
       \/ e.id = MessageIdToUsize("GetBlockBodies") /\ RlpIsList(e.data)

\* The data provider answering never touches valid_peers, the pipes or the
\* mailboxes, and never yields a Disconnect.
ProviderErrorsAreQuiet ==
    \A p \in ServerPeers :
        (server_last'.op = "data_provider" /\ provider_returns(p)) =>
            /\ valid_peers' = valid_peers
            /\ peer_pipes' = peer_pipes
            /\ mailbox' = mailbox
            /\ event_task'[p].st = "send" => event_task'[p].ev.t = "Message"

\* A send that completes puts exactly the event the call held at the end of
\* the peer's channel while the receiver exists, and nothing anywhere else.
SendEnqueuesHeld ==
    \A p \in ServerPeers :
        (server_last'.op = "send" /\ send_completes(p)) =>
            /\ event_task'[p].st = "idle"
            /\ peer_pipes' = peer_pipes /\ valid_peers' = valid_peers
            /\ \A q \in ServerPeers \ {p} : mailbox'[q] = mailbox[q]
            /\ IF ReceiverAlive(p)
               THEN /\ mailbox'[p].prelude = mailbox[p].prelude
                    /\ mailbox'[p].queue = Append(mailbox[p].queue, event_task[p].ev)
               ELSE mailbox'[p] = NoMailbox

ClaimedReason(e) ==
    IF e.id = MessageIdToUsize("Status") /\ RlpDecodes("status", e.data)
    THEN UselessPeer
    ELSE ProtocolBreach

PipesMatchTracker == peer_pipes = DOMAIN block_by_peer

\* Peer 1 was registered and has been torn down while peer 2 stays registered.
PipesMatchTrackerWitness ==
    /\ peer_pipes = {2}
    /\ server_last.op = "teardown_peer"
    /\ tracker_last = [op |-> "remove_peer", peer |-> 1, block |-> -1, old |-> 0]

\* ---------------------------------------------------------------- status refresh

\* The status updater next to the registration and the Status handshake of
\* the peers: every server operation but the requests to the data provider.
StatusEvent ==
    \E p \in ServerPeers : \E e \in EventsOf(p) :
        /\ e.t = "Message"
        /\ e.id = MessageIdToUsize("Status")
        /\ on_peer_event(p, e)

RefreshNext ==
    \/ RefreshStatus
    \/ OnPeerConnect
    \/ TeardownPeer
    \/ StatusEvent
    \/ SendCompletes
    \/ NextCall
    \/ NextReturn

SpecRefresh == ServerStart /\ [][RefreshNext]_vars

\* The refresh fails: control and data provider both fail, or the best hash
\* does not resolve.
RefreshFails(control, provider, best) ==
    (control = "Err" /\ provider = "Err") \/ best # "Some"

\* C25: a failed refresh clears the stored status and a successful one
\* installs one; nothing but a refresh changes the stored status, so every
\* peer connecting after a failed refresh and before the next successful one
\* gets the prelude Disconnect(DisconnectRequested) and every peer connecting
\* after a successful one gets the Status prelude; a refresh, failed or not,
\* leaves valid_peers, the pipes and the mailboxes of the peers as they are.
FailedRefreshClearsStatus ==
    [][/\ \A o \in RefreshOutcomes :
             refresh_status(o.control, o.provider, o.best) =>
                 /\ status_message'.installed =
                        ~RefreshFails(o.control, o.provider, o.best)
                 /\ valid_peers' = valid_peers
                 /\ peer_pipes' = peer_pipes
                 /\ mailbox' = mailbox
       /\ status_message' # status_message => RefreshStatus
       /\ \A p \in ServerPeers :
             (mailbox'[p] # mailbox[p] /\ on_peer_connect(p)) =>
                 /\ ~status_message.installed =>
                        mailbox'[p].prelude = << OutboundDisconnect(DisconnectRequested) >>
                 /\ status_message.installed =>
                        /\ Len(mailbox'[p].prelude) = 2
                        /\ mailbox'[p].prelude[1].id = MessageIdToUsize("Status")]_vars

\* The status was cleared while peer 1 is valid and registered, and peer 2
\* connected since and was given the Disconnect prelude.
FailedRefreshClearsStatusWitness ==
    /\ status_message = NoStatus
    /\ 1 \in valid_peers /\ 1 \in peer_pipes
    /\ 2 \in peer_pipes
    /\ mailbox[2].prelude = << OutboundDisconnect(DisconnectRequested) >>

\* ---------------------------------------------------------------- outbound pump

\* One peer that registers and stays registered, with its inbound events and
\* an outbound pump that calls next for it, twice at a time as well.
PumpConnect ==
    \E p \in PumpedPeers : p \notin peer_pipes /\ on_peer_connect(p)

PumpEvent ==
    \E p \in PumpedPeers : \E e \in EventsOf(p) : on_peer_event(p, e)

PumpProviderReturns == \E p \in PumpedPeers : provider_returns(p)

PumpSendCompletes == \E p \in PumpedPeers : send_completes(p)

PumpNextCall == \E p \in PumpedPeers : p \in peer_pipes /\ next_call(p)

NextCallAgain == \E p \in PumpedPeers : next_call_again(p)

PumpNext ==
    \/ RefreshStatus
    \/ PumpConnect
    \/ PumpEvent
    \/ PumpProviderReturns
    \/ PumpSendCompletes
    \/ PumpNextCall
    \/ NextCallAgain
    \/ NextReturn

\* The pump keeps calling next for the registered peer, the calls it started
\* return once the stream has an item, and a send completes once the channel
\* has room.
PumpFairness ==
    /\ WF_vars(PumpNextCall)
    /\ WF_vars(NextReturn)
    /\ WF_vars(PumpSendCompletes)

SpecPump == ServerStart /\ [][PumpNext]_vars /\ PumpFairness

\* What the receiver stream of a mailbox still has to yield, in order.
Stream(mb) == mb.prelude \o mb.queue

\* C26: while next keeps being called for a registered peer, every send into
\* the peer's single-slot channel eventually completes and every buffered
\* event is eventually taken out; the channel never buffers more than one
\* sent event; and the stream changes only by a registration starting it, a
\* completed send appending the event sent, or one next call removing and
\* returning its first item, so each event is returned by exactly one call,
\* also when two calls run at the same time.
PumpDelivers ==
    /\ [](\A p \in ServerPeers : Len(mailbox[p].queue) <= ChannelCapacity)
    /\ [][\A p \in PumpedPeers :
             Stream(mailbox'[p]) # Stream(mailbox[p]) =>
                 \/ /\ server_last'.op = "send"
                    /\ event_task[p].st = "send"
                    /\ event_task'[p].st = "idle"
                    /\ Stream(mailbox'[p]) = Append(Stream(mailbox[p]), event_task[p].ev)
                 \/ /\ server_last'.op = "next"
                    /\ InFlight(next_task[p])
                    /\ next_task'[p] = IF next_task[p] = "waiting2" THEN "waiting" ELSE "idle"
                    /\ Stream(mailbox[p]) = << server_last'.ev >> \o Stream(mailbox'[p])
                 \/ /\ p \notin peer_pipes
                    /\ p \in peer_pipes'
                    /\ Stream(mailbox[p]) = << >>]_vars
    /\ \A p \in PumpedPeers :
           (event_task[p].st = "send") ~> (event_task[p].st = "idle")
    /\ \A p \in PumpedPeers :
           (mailbox[p].queue # << >>) ~> (mailbox[p].queue = << >>)

\* A send waits for the full channel of peer 1 while two next calls are
\* running for it.
PumpDeliversWitness ==
    /\ 1 \in peer_pipes
    /\ event_task[1].st = "send"
    /\ Len(mailbox[1].queue) = ChannelCapacity
    /\ next_task[1] = "waiting2"

\* ---------------------------------------------------------------- valid peers

\* C27: every valid peer is a registered peer in every reachable state,
\* also when a Status is handled after the peer's Disconnect event or before
\* its on_peer_connect.
ValidPeersHavePipes == valid_peers \subseteq peer_pipes

\* ---------------------------------------------------------------- sender lookup

\* C28: when the data provider has answered the request of a peer that had
\* pipes when the request arrived, the peer's pipes still exist, so that the
\* sender lookup of on_peer_event succeeds and the reply is sent, whatever
\* Disconnect events were handled while the request was awaited.
SenderLookupSucceeds ==
    [][\A p \in ServerPeers :
          (/\ server_last'.op = "data_provider"
           /\ event_task[p].st = "await"
           /\ event_task[p].registered
           /\ provider_returns(p)) =>
              /\ p \in peer_pipes
              /\ event_task'[p].st = "send"]_vars

\* ---------------------------------------------------------------- reader-writer locks

NumThreads == 3

Threads == 1..NumThreads

\* The parking_lot::RwLock fields of CapabilityServerImpl.
Locks == {"peer_pipes", "block_tracker", "status_message", "valid_peers"}

Read(l) == [k |-> "read", l |-> l]

Write(l) == [k |-> "write", l |-> l]

Release(l) == [k |-> "release", l |-> l]

\* An await: the task may be suspended here.
Suspend == [k |-> "suspend", l |-> "none"]

\* teardown_peer with its locks taken in the opposite order.
MutantProgramTeardownReversed(op) ==
    IF op = "on_peer_connect"
    THEN << Read("status_message"), Release("status_message"),
            Write("peer_pipes"), Write("block_tracker"),
            Release("block_tracker"), Release("peer_pipes") >>
    ELSE IF op = "teardown_peer"
    THEN << Write("valid_peers"), Write("block_tracker"), Write("peer_pipes"),
            Release("peer_pipes"), Release("block_tracker"), Release("valid_peers") >>
    ELSE IF op = "status"
    THEN << Read("valid_peers"), Release("valid_peers"),
            Read("status_message"), Write("valid_peers"),
            Release("valid_peers"), Release("status_message"),
            Read("peer_pipes"), Release("peer_pipes"), Suspend >>
    ELSE IF op = "message"
    THEN << Read("valid_peers"), Release("valid_peers"), Suspend,
            Read("peer_pipes"), Release("peer_pipes"), Suspend >>
    ELSE IF op = "next"
    THEN << Read("peer_pipes"), Release("peer_pipes"), Suspend, Suspend >>
    ELSE << Suspend, Write("status_message"), Release("status_message"), Suspend >>

\* The lock steps and awaits of each operation, in program order: guards are
\* released where they go out of scope, temporaries at the end of their
\* statement.
Program(op) ==
    IF op = "on_peer_connect"
    THEN << Read("status_message"), Release("status_message"),
            Write("peer_pipes"), Write("block_tracker"),
            Release("block_tracker"), Release("peer_pipes") >>
    ELSE IF op = "teardown_peer"
    THEN << Write("peer_pipes"), Write("block_tracker"), Write("valid_peers"),
            Release("valid_peers"), Release("block_tracker"), Release("peer_pipes") >>
    ELSE IF op = "status"
    THEN << Read("valid_peers"), Release("valid_peers"),
            Read("status_message"), Write("valid_peers"),
            Release("valid_peers"), Release("status_message"),
            Read("peer_pipes"), Release("peer_pipes"), Suspend >>
    ELSE IF op = "message"
    THEN << Read("valid_peers"), Release("valid_peers"), Suspend,
            Read("peer_pipes"), Release("peer_pipes"), Suspend >>
    ELSE IF op = "next"
    THEN << Read("peer_pipes"), Release("peer_pipes"), Suspend, Suspend >>
    ELSE << Suspend, Write("status_message"), Release("status_message"), Suspend >>

Operations ==
    {"on_peer_connect", "teardown_peer", "status", "message", "next", "refresh"}

Idle == [op |-> "idle", at |-> 1, waiting |-> FALSE]

Free == [writer |-> 0, readers |-> {}]

\* The step the thread is at; a thread past its last step is at no step.
StepOf(t) ==
    IF lock_task[t].op # "idle" /\ lock_task[t].at <= Len(Program(lock_task[t].op))
    THEN Program(lock_task[t].op)[lock_task[t].at]
    ELSE [k |-> "none", l |-> "none"]

\* The thread is parked in read() or write() of the lock l.
WaitsFor(t, k, l) ==
    lock_task[t].waiting /\ StepOf(t).k = k /\ StepOf(t).l = l

\* parking_lot grants a write lock when nobody holds the lock, and a read lock
\* when nobody writes it and no writer is parked on it.
Grantable(t) ==
    LET s == StepOf(t)
    IN IF s.k = "write"
       THEN lock_held[s.l] = Free
       ELSE /\ lock_held[s.l].writer = 0
            /\ \A u \in Threads \ {t} : ~WaitsFor(u, "write", s.l)

LockInit ==
    /\ lock_held = [l \in Locks |-> Free]
    /\ lock_task = [t \in Threads |-> Idle]

\* A thread starts to run an operation.
begin(t, op) ==
    /\ lock_task[t].op = "idle"
    /\ lock_task' = [lock_task EXCEPT ![t] = [op |-> op, at |-> 1, waiting |-> FALSE]]
    /\ UNCHANGED lock_held
    /\ UNCHANGED <<trackerVars, sessionVars, helloVars, serverVars>>

\* The thread calls read() or write().
request(t) ==
    /\ StepOf(t).k \in {"read", "write"}
    /\ ~lock_task[t].waiting
    /\ lock_task' = [lock_task EXCEPT ![t].waiting = TRUE]
    /\ UNCHANGED lock_held
    /\ UNCHANGED <<trackerVars, sessionVars, helloVars, serverVars>>

\* The call returns the guard.
acquire(t) ==
    /\ lock_task[t].waiting
    /\ Grantable(t)
    /\ lock_held' =
           [lock_held EXCEPT
               ![StepOf(t).l] = IF StepOf(t).k = "write"
                                THEN [@ EXCEPT !.writer = t]
                                ELSE [@ EXCEPT !.readers = @ \cup {t}]]
    /\ lock_task' = [lock_task EXCEPT ![t].waiting = FALSE, ![t].at = @ + 1]
    /\ UNCHANGED <<trackerVars, sessionVars, helloVars, serverVars>>

\* A guard is dropped.
release(t) ==
    /\ StepOf(t).k = "release"
    /\ lock_held' =
           [lock_held EXCEPT
               ![StepOf(t).l] = [writer |-> IF @.writer = t THEN 0 ELSE @.writer,
                                 readers |-> @.readers \ {t}]]
    /\ lock_task' = [lock_task EXCEPT ![t].at = @ + 1]
    /\ UNCHANGED <<trackerVars, sessionVars, helloVars, serverVars>>

\* The task passes an await.
suspend(t) ==
    /\ StepOf(t).k = "suspend"
    /\ lock_task' = [lock_task EXCEPT ![t].at = @ + 1]
    /\ UNCHANGED lock_held
    /\ UNCHANGED <<trackerVars, sessionVars, helloVars, serverVars>>

\* The operation returns.
finish(t) ==
    /\ lock_task[t].op # "idle"
    /\ lock_task[t].at > Len(Program(lock_task[t].op))
    /\ lock_task' = [lock_task EXCEPT ![t] = Idle]
    /\ UNCHANGED lock_held
    /\ UNCHANGED <<trackerVars, sessionVars, helloVars, serverVars>>

LockNext ==
    \/ \E t \in Threads, op \in Operations : begin(t, op)
    \/ \E t \in Threads : request(t)
    \/ \E t \in Threads : acquire(t)
    \/ \E t \in Threads : release(t)
    \/ \E t \in Threads : suspend(t)
    \/ \E t \in Threads : finish(t)

LockStart == LockInit /\ TrackerInit /\ NoSession /\ NoHandshake /\ NoServer

SpecLocks == LockStart /\ [][LockNext]_vars

\* The locks the thread holds.
HeldBy(t) == { l \in Locks : lock_held[l].writer = t \/ t \in lock_held[l].readers }

\* u keeps the parked thread t from its lock: u holds it in a conflicting
\* mode, or t wants to read and u is parked on it as a writer.
Blocks(u, t) ==
    LET s == StepOf(t)
    IN /\ lock_task[t].waiting
       /\ \/ lock_held[s.l].writer = u
          \/ s.k = "write" /\ u \in lock_held[s.l].readers
          \/ s.k = "read" /\ u # t /\ WaitsFor(u, "write", s.l)

\* Every thread of S is parked behind a thread of S.
Deadlocked(S) == S # {} /\ \A t \in S : \E u \in S : Blocks(u, t)

\* An order of the locks every operation follows.
LockRank(l) ==
    IF l = "peer_pipes" THEN 1
    ELSE IF l = "block_tracker" THEN 2
    ELSE IF l = "status_message" THEN 3
    ELSE 4

\* C29: no threads running on_peer_connect, Disconnect handling, Status
\* handling, other message handling, next and the status refresh ever wait
\* on each other's locks forever; a thread that holds locks only asks for a
\* lock later in one fixed order of the four locks; and no thread holds a lock
\* at an await.
LocksNeverDeadlock ==
    /\ \A S \in SUBSET Threads : ~Deadlocked(S)
    /\ \A t \in Threads :
           lock_task[t].waiting =>
               \A l \in HeldBy(t) : LockRank(l) < LockRank(StepOf(t).l)
    /\ \A t \in Threads : StepOf(t).k = "suspend" => HeldBy(t) = {}

\* Status handling holds status_message for reading and is parked on
\* valid_peers, which a teardown holds with both other locks, while the status
\* refresh is parked on status_message.
LocksNeverDeadlockWitness ==
    \E t, u, v \in Threads :
        /\ lock_task[t].op = "status"
        /\ t \in lock_held["status_message"].readers
        /\ WaitsFor(t, "write", "valid_peers")
        /\ lock_task[u].op = "teardown_peer"
        /\ HeldBy(u) = {"peer_pipes", "block_tracker", "valid_peers"}
        /\ lock_task[v].op = "refresh"
        /\ WaitsFor(v, "write", "status_message")

\* ---------------------------------------------------------------- both endpoints

\* The capability lists of a remote endpoint that advertises `hello` and takes
\* its lengths from the same table.
ListsAdvertising(hello) == { l \in LocalLists : CapabilityMessages(l) = hello }

\* C30: when the Hello read came from an endpoint that negotiates with its
\* own list and the same lengths against the Hello this side wrote, that
\* endpoint computes the same shared capability list, in the same order, and
\* so the same wire-id base for each shared capability, however either side
\* ordered its list.
NegotiationIsSymmetric ==
    HelloWasRead =>
        \A theirs \in ListsAdvertising(received.hello) :
            LET remote == SharedCapabilities(theirs, sent[1].hello)
            IN /\ remote = shared_capabilities
               /\ \A k \in 1..Len(remote) :
                      CapBase(remote, remote[k], 1) =
                          CapBase(shared_capabilities, shared_capabilities[k], 1)

\* Two capabilities are shared, and the two sides listed them in opposite
\* orders.
NegotiationIsSymmetricWitness ==
    /\ HelloWasRead
    /\ ListsAdvertising(received.hello) # {}
    /\ Len(shared_capabilities) = 2
    /\ Len(capabilities) = 2
    /\ Len(received.hello) = 2
    /\ capabilities[1].name = received.hello[2].name
    /\ capabilities[2].name = received.hello[1].name
    /\ capabilities[1].name # capabilities[2].name

\* ---------------------------------------------------------------- latch frame

\* This step sends a Disconnect: start_send of Disconnect(r) on an open session.
SendsDisconnect ==
    /\ ~disconnected
    /\ \E m \in SendMessages : m.t = "Disconnect" /\ start_send(m)

\* This step receives a 0x01 frame: poll_next reads a frame with wire id 0x01.
ReceivesDisconnectFrame == HeadIsDisconnectFrame /\ poll_next

\* The errors poll_next yields without a 0x01 frame having been handled: an
\* unhandled reserved id, an oversize payload, an unparsable or out-of-range
\* message id, an undecodable Snappy block, a transport error.
QuietErrors ==
    { PollErr("Other", "unhandled reserved message"),
      PollErr("InvalidInput", "payload size exceeds limit"),
      PollErr("Other", "message id parsing failed (invalid)"),
      PollErr("Other", "invalid message id (out of cap range)"),
      PollErr("Other", "snappy: corrupt input"),
      PollErr("Transport", "transport error") }

\* Every inbound outcome other than the two a 0x01 frame has: Ping, Pong, a
\* Subprotocol message, or one of the errors above.
IsQuietItem(item) ==
    \/ item \in QuietErrors
    \/ item \in { PollOk(Ping), PollOk(Pong) }
    \/ (item.t = "Ok" /\ item.msg.t = "Subprotocol")

\* C31: the disconnect latch changes only in a step that sends a Disconnect or
\* receives a 0x01 frame; a poll_next that yields Ping, Pong, Subprotocol or
\* one of the errors (unhandled reserved id, oversize payload, unparsable or
\* out-of-range message id, transport error) and a start_send of any other
\* message leave it unchanged, so the poll_next right after such an error still
\* takes the following frame from the transport and yields its item.
LatchChangesOnlyOnDisconnect ==
    [][/\ (disconnected' # disconnected) =>
              (SendsDisconnect \/ ReceivesDisconnectFrame)
       /\ (last'.op = "poll_next" /\ poll_next /\ IsQuietItem(last'.item)) =>
              disconnected' = disconnected
       /\ \A m \in SendMessages :
              (m.t # "Disconnect" /\ start_send(m)) => disconnected' = disconnected
       /\ (/\ last.op = "poll_next"
           /\ last.item \in QuietErrors
           /\ inbound # <<>>
           /\ Head(inbound).t = "frame"
           /\ poll_next) =>
              /\ inbound' = Tail(inbound)
              /\ last'.item \notin {PollNone, PollPending}
              /\ (Head(inbound) = PingFrame) => last'.item = PollOk(Ping)
              /\ (Head(inbound) = FirstSubprotocolFrame) =>
                     (last'.item.t = "Ok" /\ last'.item.msg.t = "Subprotocol")]_vars

\* C31 witness: poll_next has just yielded the unhandled-reserved-message
\* error, the latch is still clear and the following frame, a Ping, is pending.
LatchChangesOnlyOnDisconnectWitness ==
    /\ ~disconnected
    /\ last.op = "poll_next"
    /\ last.item = PollErr("Other", "unhandled reserved message")
    /\ inbound # <<>>
    /\ Head(inbound) = PingFrame

====
